---- MODULE Spec2Model ----
(***************************************************************************)
(* A model of the tree-walking Lox interpreter: the resolver's walk over   *)
(* the statement list, followed by the interpreter's execution of it, the  *)
(* way the test driver runs them (Resolve, then InterpretStatements).      *)
(*                                                                         *)
(* Both walks are recursive Go visitors.  Each is modelled as a machine    *)
(* with an explicit stack: one frame per Go activation that is waiting     *)
(* for a callee, one step per visitor entry or resumption.  A Go panic is  *)
(* a control state that pops frames one at a time and runs the deferred    *)
(* function of the frames that have one.                                   *)
(***************************************************************************)
EXTENDS Integers, Sequences, FiniteSets, TLC

\* Longest chain of nested constructs in a generated program.
MaxDepth == 2

\* How many times a generated loop runs when nothing ends it early.
LoopRuns == 2

\* The longest source the scanner is given, in characters.
MaxSource == 4

\* The most parameters a parsed function declaration is written with.
MaxParams == 257

(***************************************************************************)
(* Runtime values (interface{} in the source).                             *)
(***************************************************************************)
Nil == [t |-> "nil"]
Bool(b) == [t |-> "bool", v |-> b]
Num(n) == [t |-> "num", v |-> n]
Str(s) == [t |-> "str", v |-> s]
ClassRef(c) == [t |-> "class", id |-> c]
InstRef(i) == [t |-> "inst", id |-> i]

LoxFunction(declaration, closure, isInitializer) ==
    [t |-> "fun", declaration |-> declaration, closure |-> closure,
     isInitializer |-> isInitializer]

\* An empty Go map.
EmptyMap == [n \in {} |-> Nil]

MapPut(m, k, v) == [n \in (DOMAIN m) \cup {k} |-> IF n = k THEN v ELSE m[n]]

(***************************************************************************)
(* Expression nodes.  NoExpr is a nil Expr.  The nodes the resolver keys   *)
(* its side table by carry an id: the side table is a Go map keyed by the  *)
(* node's pointer, so two equal-looking nodes are still two keys.          *)
(***************************************************************************)
NoExpr == [e |-> "nil"]
Literal(v) == [e |-> "Literal", Value |-> v]
Variable(name, id) == [e |-> "Variable", Name |-> name, id |-> id]
Assign(name, value, id) == [e |-> "Assign", Name |-> name, Value |-> value, id |-> id]
Binary(left, op, right) == [e |-> "Binary", Left |-> left, Operator |-> op, Right |-> right]
Call(callee, arguments) == [e |-> "Call", Callee |-> callee, Arguments |-> arguments]
GetExpr(object, name) == [e |-> "GetExpr", Object |-> object, Name |-> name]
SetExpr(object, name, value) ==
    [e |-> "SetExpr", Object |-> object, Name |-> name, Value |-> value]
ThisExpr(id) == [e |-> "ThisExpr", Keyword |-> "this", id |-> id]
SuperExpr(method, id) == [e |-> "SuperExpr", Keyword |-> "super", Method |-> method, id |-> id]

(***************************************************************************)
(* Statement nodes.  NoStmt is a nil Stmt.                                 *)
(***************************************************************************)
NoStmt == [s |-> "nil"]
ExpressionStmt(expr) == [s |-> "ExpressionStmt", Expression |-> expr]
PrintStmt(expr) == [s |-> "PrintStmt", Expression |-> expr]
VarStmt(name, initializer) == [s |-> "VarStmt", Name |-> name, Initializer |-> initializer]
BlockStmt(statements) == [s |-> "BlockStmt", Statements |-> statements]
IfStmt(condition, thenBranch, elseBranch) ==
    [s |-> "IfStmt", Condition |-> condition, ThenBranch |-> thenBranch,
     ElseBranch |-> elseBranch]
WhileStmt(condition, body) == [s |-> "WhileStmt", Condition |-> condition, Body |-> body]
BreakStmt == [s |-> "BreakStmt"]
FunStmt(name, params, body) == [s |-> "FunStmt", Name |-> name, Params |-> params, Body |-> body]
ReturnStmt(value) == [s |-> "ReturnStmt", Value |-> value]
ClassStmt(name, superclass, methods) ==
    [s |-> "ClassStmt", Name |-> name, Superclass |-> superclass, Methods |-> methods]

(***************************************************************************)
(* The parser's desugaring of a for statement, with its four optional      *)
(* parts already parsed.                                                   *)
(***************************************************************************)
\* A desugaring that puts the increment before the body.
forStatementIncrementFirst(initializer, condition, increment, body) ==
    LET body1 == IF increment.e # "nil"
                 THEN BlockStmt(<<ExpressionStmt(increment), body>>)
                 ELSE body
        condition1 == IF condition.e = "nil" THEN Literal(Bool(TRUE)) ELSE condition
        body2 == WhileStmt(condition1, body1)
    IN IF initializer.s # "nil" THEN BlockStmt(<<initializer, body2>>) ELSE body2

forStatement(initializer, condition, increment, body) ==
    LET body1 == IF increment.e # "nil"
                 THEN BlockStmt(<<body, ExpressionStmt(increment)>>)
                 ELSE body
        condition1 == IF condition.e = "nil" THEN Literal(Bool(TRUE)) ELSE condition
        body2 == WhileStmt(condition1, body1)
    IN IF initializer.s # "nil" THEN BlockStmt(<<initializer, body2>>) ELSE body2

(***************************************************************************)
(* The programs.  A generated program is a chain of nested constructs      *)
(* around one innermost statement, between a first and a last print:       *)
(*                                                                         *)
(*   print "start";  W1( W2( ... leaf ... ) )  print "end";                *)
(*                                                                         *)
(* Every construct prints after the statements it wraps, so that what runs *)
(* after an abrupt exit shows in the output.  Names carry the nesting      *)
(* depth, ids are unique per node.                                         *)
(***************************************************************************)
Wrappers == {"block", "if", "while", "for", "fun", "method", "submethod", "init"}

Leaves == {"print", "break", "return", "returnval", "error", "this", "super"}

RECURSIVE SeqsUpTo(_, _)
SeqsUpTo(S, n) ==
    IF n = 0 THEN {<<>>}
    ELSE LET shorter == SeqsUpTo(S, n - 1)
         IN shorter \cup {Append(w, x) : w \in {v \in shorter : Len(v) = n - 1}, x \in S}

WrapSeqs == SeqsUpTo(Wrappers, MaxDepth)

NameAt(base, d) == base \o ToString(d)

LeafStmt(leaf) ==
    CASE leaf = "print" -> PrintStmt(Literal(Str("leaf")))
      [] leaf = "break" -> BreakStmt
      [] leaf = "return" -> ReturnStmt(NoExpr)
      [] leaf = "returnval" -> ReturnStmt(Literal(Num(7)))
      [] leaf = "error" -> PrintStmt(Binary(Literal(Num(1)), "/", Literal(Num(0))))
      [] leaf = "this" -> PrintStmt(ThisExpr(9001))
      [] leaf = "super" -> ExpressionStmt(Call(SuperExpr("m", 9002), <<>>))

\* i < LoopRuns and i = i + 1 for the loop variable of depth d.
LoopCond(d) == Binary(Variable(NameAt("i", d), d * 100 + 1), "<", Literal(Num(LoopRuns)))
LoopIncr(d) ==
    Assign(NameAt("i", d),
           Binary(Variable(NameAt("i", d), d * 100 + 2), "+", Literal(Num(1))),
           d * 100 + 3)

Marker(w, d) == PrintStmt(Literal(Str(NameAt(w, d))))

\* The statements that wrapper w at depth d puts around the statements S.
Wrap(w, d, S) ==
    CASE w = "block" -> <<BlockStmt(S \o <<Marker("block", d)>>)>>
      [] w = "if" ->
           <<IfStmt(Literal(Bool(TRUE)),
                    IF Len(S) = 1 THEN S[1] ELSE BlockStmt(S), NoStmt),
             Marker("if", d)>>
      [] w = "while" ->
           <<VarStmt(NameAt("i", d), Literal(Num(0))),
             WhileStmt(LoopCond(d),
                       BlockStmt(<<ExpressionStmt(LoopIncr(d))>> \o S
                                 \o <<Marker("while", d)>>))>>
      [] w = "for" ->
           <<forStatement(VarStmt(NameAt("i", d), Literal(Num(0))), LoopCond(d),
                          LoopIncr(d), BlockStmt(S \o <<Marker("for", d)>>))>>
      [] w = "fun" ->
           <<FunStmt(NameAt("f", d), <<>>, S \o <<Marker("fun", d)>>),
             PrintStmt(Call(Variable(NameAt("f", d), d * 100 + 4), <<>>))>>
      [] w = "method" ->
           <<ClassStmt(NameAt("A", d), NoExpr,
                       <<FunStmt("n", <<>>, S \o <<Marker("method", d)>>)>>),
             PrintStmt(Call(GetExpr(Call(Variable(NameAt("A", d), d * 100 + 5), <<>>),
                                    "n"), <<>>))>>
      [] w = "submethod" ->
           <<ClassStmt(NameAt("P", d), NoExpr,
                       <<FunStmt("m", <<>>, <<Marker("P.m", d)>>)>>),
             ClassStmt(NameAt("B", d), Variable(NameAt("P", d), d * 100 + 6),
                       <<FunStmt("n", <<>>, S \o <<Marker("submethod", d)>>)>>),
             PrintStmt(Call(GetExpr(Call(Variable(NameAt("B", d), d * 100 + 7), <<>>),
                                    "n"), <<>>))>>
      [] w = "init" ->
           <<ClassStmt(NameAt("K", d), NoExpr,
                       <<FunStmt("init", <<>>, S \o <<Marker("init", d)>>)>>),
             VarStmt(NameAt("o", d), Call(Variable(NameAt("K", d), d * 100 + 8), <<>>)),
             PrintStmt(Call(GetExpr(Variable(NameAt("o", d), d * 100 + 9), "init"),
                            <<>>))>>

RECURSIVE Nest(_, _, _)
Nest(ws, d, leaf) ==
    IF d > Len(ws) THEN <<LeafStmt(leaf)>>
    ELSE Wrap(ws[d], d, Nest(ws, d + 1, leaf))

Generated(ws, leaf) ==
    <<PrintStmt(Literal(Str("start")))>> \o Nest(ws, 1, leaf)
        \o <<PrintStmt(Literal(Str("end")))>>

(***************************************************************************)
(* The scanner.  A source is a sequence of one-character strings; Go's     *)
(* indexes count from 0, so source[current] of the code is                 *)
(* source[current + 1] here.  scanner holds the fields of the Scanner      *)
(* struct, stdErr being what has been written to the error sink.           *)
(***************************************************************************)
NewScanner(source) ==
    [source |-> source, start |-> 0, current |-> 0, line |-> 0, tokens |-> <<>>,
     stdErr |-> <<>>]

\* The rune '\000' that peek and peekNext answer at the end of the source.
NUL == "NUL"

RECURSIVE Text(_)
Text(chars) == IF chars = <<>> THEN "" ELSE Head(chars) \o Text(Tail(chars))

NoLiteral == [t |-> "nil"]

Token(tokenType, lexeme, literal, line, start) ==
    [TokenType |-> tokenType, Lexeme |-> lexeme, Literal |-> literal, Line |-> line,
     Start |-> start]

isAtEnd(s) == s.current >= Len(s.source)

advance(s) == [s EXCEPT !.current = @ + 1]

peek(s) == IF isAtEnd(s) THEN NUL ELSE s.source[s.current + 1]

peekNext(s) == IF s.current + 1 >= Len(s.source) THEN NUL ELSE s.source[s.current + 2]

\* match: whether the next character is the expected one; it is consumed
\* when it is.
matches(s, expected) == ~isAtEnd(s) /\ s.source[s.current + 1] = expected

match(s, expected) == IF matches(s, expected) THEN advance(s) ELSE s

\* An addTokenWithLiteral whose text starts one character late.
addTokenWithLiteralLate(s, tokenType, literal) ==
    [s EXCEPT !.tokens =
        Append(@, Token(tokenType, Text(SubSeq(s.source, s.start + 2, s.current)),
                        literal, s.line, s.start))]

addTokenWithLiteral(s, tokenType, literal) ==
    [s EXCEPT !.tokens =
        Append(@, Token(tokenType, Text(SubSeq(s.source, s.start + 1, s.current)),
                        literal, s.line, s.start))]

addToken(s, tokenType) == addTokenWithLiteral(s, tokenType, NoLiteral)

\* Scanner.error: one line written to the sink.
error(s, message) ==
    [s EXCEPT !.stdErr =
        Append(@, "[line " \o ToString(s.line) \o "] Error: " \o message \o "\n")]

Digits == {"0", "1", "2", "3", "4", "5", "6", "7", "8", "9"}

Letters ==
    {"a", "b", "c", "d", "e", "f", "g", "h", "i", "j", "k", "l", "m", "n", "o", "p",
     "q", "r", "s", "t", "u", "v", "w", "x", "y", "z", "A", "B", "C", "D", "E", "F",
     "G", "H", "I", "J", "K", "L", "M", "N", "O", "P", "Q", "R", "S", "T", "U", "V",
     "W", "X", "Y", "Z", "_"}

isDigit(r) == r \in Digits

isAlpha(char) == char \in Letters

isAlphaNumeric(char) == isAlpha(char) \/ isDigit(char)

keywords ==
    [and |-> "TokenAnd", class |-> "TokenClass", else |-> "TokenElse",
     false |-> "TokenFalse", for |-> "TokenFor", fun |-> "TokenFun", if |-> "TokenIf",
     nil |-> "TokenNil", or |-> "TokenOr", print |-> "TokenPrint",
     return |-> "TokenReturn", super |-> "TokenSuper", this |-> "TokenThis",
     true |-> "TokenTrue", var |-> "TokenVar", while |-> "TokenWhile",
     break |-> "TokenBreak", continue |-> "TokenContinue", type |-> "TokenTypeType"]

\* The token type of a character that is a token by itself, "" for the others.
singleCharacter(char) ==
    CASE char = "(" -> "TokenLeftParen"
      [] char = ")" -> "TokenRightParen"
      [] char = "{" -> "TokenLeftBrace"
      [] char = "}" -> "TokenRightBrace"
      [] char = "[" -> "TokenLeftBracket"
      [] char = "]" -> "TokenRightBracket"
      [] char = "," -> "TokenComma"
      [] char = "." -> "TokenDot"
      [] char = "-" -> "TokenMinus"
      [] char = "+" -> "TokenPlus"
      [] char = ";" -> "TokenSemicolon"
      [] char = ":" -> "TokenColon"
      [] char = "*" -> "TokenStar"
      [] char = "?" -> "TokenQuestionMark"
      [] char = "|" -> "TokenPipe"
      [] OTHER -> ""

\* The token types of a character that may be followed by '=': alone, and
\* with the '='.
withLookAhead(char) ==
    CASE char = "!" -> <<"TokenBang", "TokenBangEqual">>
      [] char = "=" -> <<"TokenEqual", "TokenEqualEqual">>
      [] char = "<" -> <<"TokenLess", "TokenLessEqual">>
      [] char = ">" -> <<"TokenGreater", "TokenGreaterEqual">>
      [] OTHER -> <<>>

\* The loop of a single-line comment.
RECURSIVE lineComment(_)
lineComment(s) ==
    IF peek(s) # "\n" /\ ~isAtEnd(s) THEN lineComment(advance(s)) ELSE s

\* The loop of a block comment: it ends at the end of the source or by the
\* break after the two characters that close the comment.
RECURSIVE blockCommentLoop(_)
blockCommentLoop(s) ==
    IF isAtEnd(s) THEN s
    ELSE IF peek(s) = "*" /\ peekNext(s) = "/" THEN advance(advance(s))
    ELSE IF peek(s) = "\n" THEN blockCommentLoop(advance([s EXCEPT !.line = @ + 1]))
    ELSE blockCommentLoop(advance(s))

blockComment(s) ==
    LET after == blockCommentLoop(s)
    IN IF isAtEnd(after) THEN error(after, "Unterminated block comment.") ELSE after

RECURSIVE stringLoop(_)
stringLoop(s) ==
    IF peek(s) # "\"" /\ ~isAtEnd(s)
    THEN stringLoop(advance(IF peek(s) = "\n" THEN [s EXCEPT !.line = @ + 1] ELSE s))
    ELSE s

\* Scanner.string, called after the opening quote.
string(s) ==
    LET after == stringLoop(s)
        closed == advance(after)
    IN IF isAtEnd(after) THEN error(after, "Unterminated string.")
       ELSE addTokenWithLiteral(closed, "TokenString",
                [t |-> "str",
                 v |-> Text(SubSeq(closed.source, closed.start + 2, closed.current - 1))])

RECURSIVE digits(_)
digits(s) == IF isDigit(peek(s)) THEN digits(advance(s)) ELSE s

DigitValue(r) ==
    CASE r = "0" -> 0 [] r = "1" -> 1 [] r = "2" -> 2 [] r = "3" -> 3 [] r = "4" -> 4
      [] r = "5" -> 5 [] r = "6" -> 6 [] r = "7" -> 7 [] r = "8" -> 8 [] r = "9" -> 9

\* strconv.ParseFloat of digits with at most one '.' among them: the number
\* is numerator / denominator.
RECURSIVE ParseFloat(_, _, _)
ParseFloat(chars, numerator, denominator) ==
    IF chars = <<>> THEN [t |-> "float64", numerator |-> numerator,
                          denominator |-> denominator]
    ELSE IF Head(chars) = "." THEN ParseFloat(Tail(chars), numerator, 1)
    ELSE ParseFloat(Tail(chars), 10 * numerator + DigitValue(Head(chars)),
                    IF denominator = 0 THEN 0 ELSE 10 * denominator)

\* Scanner.number, called after the first digit.
number(s) ==
    LET whole == digits(s)
        all == IF peek(whole) = "." /\ isDigit(peekNext(whole))
               THEN digits(advance(whole)) ELSE whole
    IN addTokenWithLiteral(all, "TokenNumber",
                           ParseFloat(SubSeq(all.source, all.start + 1, all.current), 0, 0))

RECURSIVE identifierLoop(_)
identifierLoop(s) == IF isAlphaNumeric(peek(s)) THEN identifierLoop(advance(s)) ELSE s

\* Scanner.identifier, called after the first letter.
identifier(s) ==
    LET after == identifierLoop(s)
        text == Text(SubSeq(after.source, after.start + 1, after.current))
    IN addToken(after, IF text \in DOMAIN keywords THEN keywords[text]
                       ELSE "TokenIdentifier")

\* scanToken, with start already set to current.
scanToken(s) ==
    LET char == s.source[s.current + 1]
        a == advance(s)
    IN IF singleCharacter(char) # "" THEN addToken(a, singleCharacter(char))
       ELSE IF withLookAhead(char) # <<>>
       THEN addToken(match(a, "="),
                     withLookAhead(char)[IF matches(a, "=") THEN 2 ELSE 1])
       ELSE IF char = "/"
       THEN IF matches(a, "/") THEN lineComment(match(a, "/"))
            ELSE IF matches(a, "*") THEN blockComment(match(a, "*"))
            ELSE addToken(a, "TokenSlash")
       ELSE IF char \in {" ", "\r", "\t"} THEN a
       ELSE IF char = "\n" THEN [a EXCEPT !.line = @ + 1]
       ELSE IF char = "\"" THEN string(a)
       ELSE IF isDigit(char) THEN number(a)
       ELSE IF isAlpha(char) THEN identifier(a)
       ELSE error(a, "Unexpected character.")

\* A ScanTokens that returns the tokens as they are.
appendNothing(s) == s

\* The last statement of ScanTokens.
appendEof(s) == [s EXCEPT !.tokens = Append(@, Token("TokenEof", "", NoLiteral, s.line, 0))]

(***************************************************************************)
(* The parser, for function declarations.  parser holds the fields of the  *)
(* Parser and the position of ParseStatements, every operator passing a    *)
(* parser on.  A Go panic is the field panic ("" when nothing panicked),   *)
(* and val and more are what the last operator returned.  frames are the   *)
(* activations of ParseStatements, function and block, the innermost last, *)
(* with their local variables statements, name and parameters.  stdErr is  *)
(* the io.Writer the parser was given: a nil interface, or a sink with     *)
(* what was written to it.                                                 *)
(***************************************************************************)
NilWriter == [nil |-> TRUE, written |-> <<>>]

Sink == [nil |-> FALSE, written |-> <<>>]

ParserFrame(at, name) == [at |-> at, statements |-> <<>>, name |-> name, parameters |-> <<>>]

NewParser(tokens, stdErr) ==
    [tokens |-> tokens, current |-> 0, stdErr |-> stdErr, panic |-> "", val |-> Nil,
     more |-> FALSE, frames |-> <<ParserFrame("ParseStatements", "")>>]

\* The most parameters a declaration has without a diagnostic.
ParameterLimit == 255

Returned(p, value) == [p EXCEPT !.val = value]

Panicked(p, value) == IF p.panic # "" THEN p ELSE [p EXCEPT !.panic = value]

parserPeek(p) == p.tokens[p.current + 1]

parserIsAtEnd(p) == parserPeek(p).TokenType = "TokenEof"

parserPrevious(p) == p.tokens[p.current]

parserAdvance(p) ==
    LET q == IF ~parserIsAtEnd(p) THEN [p EXCEPT !.current = @ + 1] ELSE p
    IN Returned(q, parserPrevious(q))

check(p, t) == IF parserIsAtEnd(p) THEN FALSE ELSE parserPeek(p).TokenType = t

parserMatch(p, t) == IF check(p, t) THEN parserAdvance(p) ELSE p

\* Parser.error: the message is written to stdErr, which panics when stdErr
\* is nil; the ParseError it returns is left to the caller.
parserError(p, token, message) ==
    IF p.panic # "" THEN p
    ELSE IF p.stdErr.nil THEN Panicked(p, "nil pointer dereference")
    ELSE [p EXCEPT !.stdErr.written =
             Append(@, "[line " \o ToString(token.Line) \o "] Error at '"
                       \o token.Lexeme \o "': " \o message \o "\n")]

consume(p, t, message) ==
    IF p.panic # "" THEN p
    ELSE IF check(p, t) THEN parserAdvance(p)
    ELSE Panicked(parserError(p, parserPeek(p), message), "ParseError")

\* One turn of the loop of Parser.function over the parameters: val is the
\* longer list, more tells whether a comma was matched and the loop goes on.
parameter(p, parameters) ==
    LET warned == IF Len(parameters) >= ParameterLimit
                  THEN parserError(p, parserPeek(p),
                                   "Cannot have more than 255 parameters.")
                  ELSE p
        named == consume(warned, "TokenIdentifier", "Expect parameter name.")
        longer == Append(parameters, named.val.Lexeme)
    IN IF named.panic # "" THEN named
       ELSE [parserMatch(named, "TokenComma") EXCEPT
                !.val = longer, !.more = check(named, "TokenComma")]

\* Parser.function from the name to the first parameter: val is the name,
\* more tells whether there are parameters.
functionName(p, kind) ==
    LET name == consume(p, "TokenIdentifier", "Expect " \o kind \o " name.")
        opened == consume(name, "TokenLeftParen", "Expect '(' after " \o kind \o " name.")
    IN IF opened.panic # "" THEN opened
       ELSE [opened EXCEPT !.val = name.val.Lexeme,
                           !.more = ~check(opened, "TokenRightParen")]

\* Parser.function from the end of the parameters to the body.
functionOpen(p, kind) ==
    LET closed == consume(p, "TokenRightParen", "Expect ')' after parameters.")
    IN consume(closed, "TokenLeftBrace", "Expect '{' before " \o kind \o " body.")

\* Parser.function after the body: the declaration it returns.
functionClose(body, name, parameters) ==
    IF body.panic # "" THEN body
    ELSE Returned(body, FunStmt(name, parameters, body.val))

breakStatement(p) ==
    LET ended == consume(p, "TokenSemicolon", "Expect ';' after 'break'.")
    IN IF ended.panic # "" THEN ended ELSE Returned(ended, BreakStmt)

\* Parser.statement for a statement that holds no other: a break, and a
\* token that starts no expression, where primary panics.
parseStatement(p) ==
    IF check(p, "TokenBreak") THEN breakStatement(parserAdvance(p))
    ELSE Panicked(parserError(p, parserPeek(p), "Expect expression."), "ParseError")

(***************************************************************************)
(* State.                                                                  *)
(***************************************************************************)
VARIABLES
    scanner,          \* the Scanner: source, start, current, line, tokens, stdErr
    parser,           \* the Parser: tokens, current, stdErr
    src,              \* the generator's arguments of the program that runs
    program,          \* the parsed statement list handed to both passes
    pc,               \* the driver's position
    scopes,           \* Resolver.scopes
    currentFunction,  \* Resolver.currentFunction
    currentClass,     \* Resolver.currentClass
    todo,             \* the resolver's pending work, next first
    locals,           \* Interpreter.locals, the side table: node id -> distance
    environment,      \* Interpreter.environment, an index into envs
    envs,             \* every Environment allocated so far: values, parent
    classes,          \* every LoxClass allocated so far
    instances,        \* every LoxInstance allocated so far
    stack,            \* the interpreter's Go activations, innermost last
    ctl,              \* what the interpreter does next
    output,           \* the lines written to standard output
    history           \* what has been observed of the run so far

driverVars == <<scanner, parser, src, program, pc>>
resolverVars == <<scopes, currentFunction, currentClass, todo>>
heapVars == <<envs, classes, instances>>
interpVars == <<environment, envs, classes, instances, stack, ctl, output, history>>
vars == <<scanner, parser, src, program, pc, scopes, currentFunction, currentClass, todo, locals,
          environment, envs, classes, instances, stack, ctl, output, history>>

\* Interpreter.globals: the first environment, allocated by NewInterpreter.
globals == 1

FunctionNone == "FunctionNone"
FunctionFunction == "FunctionFunction"
FunctionMethod == "FunctionMethod"
FunctionInitializer == "FunctionInitializer"

ClassNone == "ClassNone"
ClassClass == "ClassClass"
ClassSubclass == "ClassSubclass"

(***************************************************************************)
(* The resolver.  todo holds what the active Go calls still have to do:    *)
(* statements and expressions to visit, and the tails of the visitors      *)
(* that run after a nested visit returns.                                  *)
(***************************************************************************)
StmtTask(stmt) == [op |-> "stmt", stmt |-> stmt]
ExprTask(expr) == [op |-> "expr", expr |-> expr]

StmtTasks(statements) == [i \in 1..Len(statements) |-> StmtTask(statements[i])]
ExprTasks(exprs) == [i \in 1..Len(exprs) |-> ExprTask(exprs[i])]

Rest(q) == SubSeq(q, 2, Len(q))

ResolvingStmt(kind) ==
    /\ pc = "resolving"
    /\ todo # <<>>
    /\ todo[1].op = "stmt"
    /\ todo[1].stmt.s = kind

ResolvingExpr(kind) ==
    /\ pc = "resolving"
    /\ todo # <<>>
    /\ todo[1].op = "expr"
    /\ todo[1].expr.e = kind

ResolvingTail(op) ==
    /\ pc = "resolving"
    /\ todo # <<>>
    /\ todo[1].op = op

\* A panic of the resolver: the walk is abandoned where it stands.
StaticError(message) ==
    /\ pc' = "static_error"
    /\ history' = [history EXCEPT !.error = message]
    /\ UNCHANGED <<scanner, parser, src, program, scopes, currentFunction, currentClass, todo, locals,
                   environment, envs, classes, instances, stack, ctl, output>>

beginScope(sc) == Append(sc, EmptyMap)

\* An endScope that leaves the scope on the stack.
endScopeKeeps(sc) == sc

endScope(sc) == SubSeq(sc, 1, Len(sc) - 1)

\* A declare that panics when any scope holds the name.
declareFailsShadowing(sc, name) == \E i \in 1..Len(sc) : name \in DOMAIN sc[i]

\* declare panics when the innermost scope already holds the name.
declareFails(sc, name) == Len(sc) > 0 /\ name \in DOMAIN sc[Len(sc)]

\* A declare that marks the name as defined at once.
declareDefined(sc, name) ==
    IF Len(sc) = 0 THEN sc
    ELSE [sc EXCEPT ![Len(sc)] = MapPut(@, name, TRUE)]

declare(sc, name) ==
    IF Len(sc) = 0 THEN sc
    ELSE [sc EXCEPT ![Len(sc)] = MapPut(@, name, FALSE)]

define(sc, name) ==
    IF Len(sc) = 0 THEN sc
    ELSE [sc EXCEPT ![Len(sc)] = MapPut(@, name, TRUE)]

\* The scopes that hold the name, as indices into sc.
Holding(sc, name) == {i \in 1..Len(sc) : name \in DOMAIN sc[i]}

Max(S) == CHOOSE x \in S : \A y \in S : y <= x

\* resolveLocal: the side table with the distance of the innermost scope that
\* holds the name, or unchanged when no scope does.
resolveLocal(sc, tbl, id, name) ==
    IF Holding(sc, name) = {} THEN tbl
    ELSE MapPut(tbl, id, Len(sc) - Max(Holding(sc, name)))

\* The parameters of a function declared and defined one after the other;
\* failed is set by the first one that is already in the scope.
RECURSIVE declareParams(_, _, _)
declareParams(sc, params, i) ==
    IF i > Len(params) THEN [failed |-> FALSE, scopes |-> sc]
    ELSE IF declareFails(sc, params[i]) THEN [failed |-> TRUE, scopes |-> sc]
    ELSE declareParams(define(declare(sc, params[i]), params[i]), params, i + 1)

\* The work of resolveFunction after its parameters: the body, endScope, and
\* the restore of currentFunction.
FunctionTasks(stmt, functionType, enclosingFunction) ==
    StmtTasks(stmt.Body)
        \o <<[op |-> "endScope"],
             [op |-> "exitFunction", functionType |-> functionType,
              enclosingFunction |-> enclosingFunction]>>

ResolverVisitBlockStmt ==
    /\ ResolvingStmt("BlockStmt")
    /\ scopes' = beginScope(scopes)
    /\ todo' = StmtTasks(todo[1].stmt.Statements) \o <<[op |-> "endScope"]>> \o Rest(todo)
    /\ UNCHANGED <<driverVars, currentFunction, currentClass, locals, interpVars>>

ResolverEndScope ==
    /\ ResolvingTail("endScope")
    /\ scopes' = endScope(scopes)
    /\ todo' = Rest(todo)
    /\ UNCHANGED <<driverVars, currentFunction, currentClass, locals, interpVars>>

ResolverVisitVarStmt ==
    /\ ResolvingStmt("VarStmt")
    /\ LET stmt == todo[1].stmt
       IN IF declareFails(scopes, stmt.Name)
          THEN StaticError("Variable already declared in this scope.")
          ELSE /\ scopes' = declare(scopes, stmt.Name)
               /\ todo' = (IF stmt.Initializer.e # "nil"
                           THEN <<ExprTask(stmt.Initializer)>> ELSE <<>>)
                          \o <<[op |-> "define", name |-> stmt.Name]>> \o Rest(todo)
               /\ UNCHANGED <<driverVars, currentFunction, currentClass, locals,
                              interpVars>>

ResolverDefine ==
    /\ ResolvingTail("define")
    /\ scopes' = define(scopes, todo[1].name)
    /\ todo' = Rest(todo)
    /\ UNCHANGED <<driverVars, currentFunction, currentClass, locals, interpVars>>

ResolverVisitExpressionStmt ==
    /\ ResolvingStmt("ExpressionStmt")
    /\ todo' = <<ExprTask(todo[1].stmt.Expression)>> \o Rest(todo)
    /\ UNCHANGED <<driverVars, scopes, currentFunction, currentClass, locals, interpVars>>

ResolverVisitPrintStmt ==
    /\ ResolvingStmt("PrintStmt")
    /\ todo' = <<ExprTask(todo[1].stmt.Expression)>> \o Rest(todo)
    /\ UNCHANGED <<driverVars, scopes, currentFunction, currentClass, locals, interpVars>>

ResolverVisitIfStmt ==
    /\ ResolvingStmt("IfStmt")
    /\ LET stmt == todo[1].stmt
       IN todo' = <<ExprTask(stmt.Condition), StmtTask(stmt.ThenBranch)>>
                  \o (IF stmt.ElseBranch.s # "nil"
                      THEN <<StmtTask(stmt.ElseBranch)>> ELSE <<>>)
                  \o Rest(todo)
    /\ UNCHANGED <<driverVars, scopes, currentFunction, currentClass, locals, interpVars>>

ResolverVisitWhileStmt ==
    /\ ResolvingStmt("WhileStmt")
    /\ todo' = <<ExprTask(todo[1].stmt.Condition), StmtTask(todo[1].stmt.Body)>>
               \o Rest(todo)
    /\ UNCHANGED <<driverVars, scopes, currentFunction, currentClass, locals, interpVars>>

ResolverVisitBreakStmt ==
    /\ ResolvingStmt("BreakStmt")
    /\ todo' = Rest(todo)
    /\ UNCHANGED <<driverVars, scopes, currentFunction, currentClass, locals, interpVars>>

\* Whether VisitReturnStmt panics for a return statement met with the
\* function kind fn current.
returnRejected(fn, stmt) == fn = FunctionNone

ResolverVisitReturnStmt ==
    /\ ResolvingStmt("ReturnStmt")
    /\ LET stmt == todo[1].stmt
       IN IF returnRejected(currentFunction, stmt)
          THEN StaticError("Cannot return from top-level code.")
          ELSE /\ todo' = (IF stmt.Value.e # "nil" THEN <<ExprTask(stmt.Value)>> ELSE <<>>)
                          \o Rest(todo)
               /\ UNCHANGED <<driverVars, scopes, currentFunction, currentClass, locals,
                              interpVars>>

\* resolveFunction up to the walk of its body: the function kind switched, a
\* scope opened on top of sc, the parameters declared; rest is the work of the
\* callers.  A parameter that is declared already panics where the loop stands.
resolveFunction(stmt, functionType, sc, rest) ==
    LET params == declareParams(beginScope(sc), stmt.Params, 1)
    IN IF params.failed
       THEN /\ pc' = "static_error"
            /\ history' = [history EXCEPT
                              !.error = "Variable already declared in this scope."]
            /\ currentFunction' = functionType
            /\ scopes' = params.scopes
            /\ UNCHANGED <<scanner, parser, src, program, currentClass, todo, locals,
                           environment, envs, classes, instances, stack, ctl, output>>
       ELSE /\ currentFunction' = functionType
            /\ scopes' = params.scopes
            /\ todo' = FunctionTasks(stmt, functionType, currentFunction) \o rest
            /\ UNCHANGED <<driverVars, currentClass, locals, interpVars>>

\* A resolveFunction that resets the kind instead of restoring it.
restoredFunctionNone(task) == FunctionNone

\* The function kind that resolveFunction restores on its way out.
restoredFunction(task) == task.enclosingFunction

ResolverExitFunction ==
    /\ ResolvingTail("exitFunction")
    /\ currentFunction' = restoredFunction(todo[1])
    /\ todo' = Rest(todo)
    /\ UNCHANGED <<driverVars, scopes, currentClass, locals, interpVars>>

ResolverVisitFunStmt ==
    /\ ResolvingStmt("FunStmt")
    /\ LET stmt == todo[1].stmt
       IN IF declareFails(scopes, stmt.Name)
          THEN StaticError("Variable already declared in this scope.")
          ELSE resolveFunction(stmt, FunctionFunction,
                               define(declare(scopes, stmt.Name), stmt.Name), Rest(todo))

\* VisitClassStmt from the scope of super on: the scopes opened, then one
\* resolveFunction per method, then the tail that closes them.
openClassBody(sc, stmt) ==
    LET withSuper == IF stmt.Superclass.e # "nil"
                     THEN define(beginScope(sc), "super") ELSE sc
    IN define(beginScope(withSuper), "this")

MethodTasks(stmt, enclosingClass) ==
    [i \in 1..Len(stmt.Methods) |-> [op |-> "method", method |-> stmt.Methods[i]]]
        \o <<[op |-> "exitClass", stmt |-> stmt, enclosingClass |-> enclosingClass]>>

ResolverVisitClassStmt ==
    /\ ResolvingStmt("ClassStmt")
    /\ LET stmt == todo[1].stmt
           declared == define(declare(scopes, stmt.Name), stmt.Name)
       IN IF declareFails(scopes, stmt.Name)
          THEN StaticError("Variable already declared in this scope.")
          ELSE /\ IF stmt.Superclass.e # "nil"
                  THEN /\ currentClass' = ClassSubclass
                       /\ scopes' = declared
                       /\ todo' = <<ExprTask(stmt.Superclass),
                                    [op |-> "classBody", stmt |-> stmt,
                                     enclosingClass |-> currentClass]>> \o Rest(todo)
                  ELSE /\ currentClass' = ClassClass
                       /\ scopes' = openClassBody(declared, stmt)
                       /\ todo' = MethodTasks(stmt, currentClass) \o Rest(todo)
               /\ UNCHANGED <<driverVars, currentFunction, locals, interpVars>>

ResolverClassBody ==
    /\ ResolvingTail("classBody")
    /\ scopes' = openClassBody(scopes, todo[1].stmt)
    /\ todo' = MethodTasks(todo[1].stmt, todo[1].enclosingClass) \o Rest(todo)
    /\ UNCHANGED <<driverVars, currentFunction, currentClass, locals, interpVars>>

ResolverMethod ==
    /\ ResolvingTail("method")
    /\ LET method == todo[1].method
           declaration == IF method.Name = "init"
                          THEN FunctionInitializer ELSE FunctionMethod
       IN resolveFunction(method, declaration, scopes, Rest(todo))

\* A VisitClassStmt that resets the kind instead of restoring it.
restoredClassNone(task) == ClassNone

\* The class kind that VisitClassStmt restores on its way out.
restoredClass(task) == task.enclosingClass

ResolverExitClass ==
    /\ ResolvingTail("exitClass")
    /\ scopes' = IF todo[1].stmt.Superclass.e # "nil"
                 THEN endScope(endScope(scopes)) ELSE endScope(scopes)
    /\ currentClass' = restoredClass(todo[1])
    /\ todo' = Rest(todo)
    /\ UNCHANGED <<driverVars, currentFunction, locals, interpVars>>

ResolverVisitLiteralExpr ==
    /\ ResolvingExpr("Literal")
    /\ todo' = Rest(todo)
    /\ UNCHANGED <<driverVars, scopes, currentFunction, currentClass, locals, interpVars>>

ResolverVisitBinaryExpr ==
    /\ ResolvingExpr("Binary")
    /\ todo' = <<ExprTask(todo[1].expr.Left), ExprTask(todo[1].expr.Right)>> \o Rest(todo)
    /\ UNCHANGED <<driverVars, scopes, currentFunction, currentClass, locals, interpVars>>

ResolverVisitVariableExpr ==
    /\ ResolvingExpr("Variable")
    /\ LET expr == todo[1].expr
       IN IF /\ Len(scopes) > 0
             /\ expr.Name \in DOMAIN scopes[Len(scopes)]
             /\ ~scopes[Len(scopes)][expr.Name]
          THEN StaticError("Cannot read local variable in its own initializer.")
          ELSE /\ locals' = resolveLocal(scopes, locals, expr.id, expr.Name)
               /\ todo' = Rest(todo)
               /\ UNCHANGED <<driverVars, scopes, currentFunction, currentClass,
                              interpVars>>

ResolverVisitAssignExpr ==
    /\ ResolvingExpr("Assign")
    /\ todo' = <<ExprTask(todo[1].expr.Value),
                 [op |-> "resolveLocal", expr |-> todo[1].expr]>> \o Rest(todo)
    /\ UNCHANGED <<driverVars, scopes, currentFunction, currentClass, locals, interpVars>>

ResolverAssignLocal ==
    /\ ResolvingTail("resolveLocal")
    /\ locals' = resolveLocal(scopes, locals, todo[1].expr.id, todo[1].expr.Name)
    /\ todo' = Rest(todo)
    /\ UNCHANGED <<driverVars, scopes, currentFunction, currentClass, interpVars>>

ResolverVisitCallExpr ==
    /\ ResolvingExpr("Call")
    /\ todo' = <<ExprTask(todo[1].expr.Callee)>> \o ExprTasks(todo[1].expr.Arguments)
               \o Rest(todo)
    /\ UNCHANGED <<driverVars, scopes, currentFunction, currentClass, locals, interpVars>>

ResolverVisitGetExpr ==
    /\ ResolvingExpr("GetExpr")
    /\ todo' = <<ExprTask(todo[1].expr.Object)>> \o Rest(todo)
    /\ UNCHANGED <<driverVars, scopes, currentFunction, currentClass, locals, interpVars>>

ResolverVisitSetExpr ==
    /\ ResolvingExpr("SetExpr")
    /\ todo' = <<ExprTask(todo[1].expr.Value), ExprTask(todo[1].expr.Object)>>
               \o Rest(todo)
    /\ UNCHANGED <<driverVars, scopes, currentFunction, currentClass, locals, interpVars>>

\* Whether VisitThisExpr panics with the class kind cls current.
thisRejected(cls) == cls = ClassNone

ResolverVisitThisExpr ==
    /\ ResolvingExpr("ThisExpr")
    /\ IF thisRejected(currentClass)
       THEN StaticError("Cannot use 'this' outside of a class.")
       ELSE /\ locals' = resolveLocal(scopes, locals, todo[1].expr.id, todo[1].expr.Keyword)
            /\ todo' = Rest(todo)
            /\ UNCHANGED <<driverVars, scopes, currentFunction, currentClass, interpVars>>

\* Whether VisitSuperExpr panics with the class kind cls current.
superRejected(cls) == cls = ClassNone \/ cls # ClassSubclass

ResolverVisitSuperExpr ==
    /\ ResolvingExpr("SuperExpr")
    /\ IF superRejected(currentClass)
       THEN StaticError(IF currentClass = ClassNone
                        THEN "Cannot use 'super' outside of a class."
                        ELSE "Cannot use 'super' in a class with no superclass.")
       ELSE /\ locals' = resolveLocal(scopes, locals, todo[1].expr.id, todo[1].expr.Keyword)
            /\ todo' = Rest(todo)
            /\ UNCHANGED <<driverVars, scopes, currentFunction, currentClass, interpVars>>

ResolverStep ==
    \/ ResolverVisitBlockStmt
    \/ ResolverEndScope
    \/ ResolverVisitVarStmt
    \/ ResolverDefine
    \/ ResolverVisitExpressionStmt
    \/ ResolverVisitPrintStmt
    \/ ResolverVisitIfStmt
    \/ ResolverVisitWhileStmt
    \/ ResolverVisitBreakStmt
    \/ ResolverVisitReturnStmt
    \/ ResolverVisitFunStmt
    \/ ResolverExitFunction
    \/ ResolverVisitClassStmt
    \/ ResolverClassBody
    \/ ResolverMethod
    \/ ResolverExitClass
    \/ ResolverVisitLiteralExpr
    \/ ResolverVisitBinaryExpr
    \/ ResolverVisitVariableExpr
    \/ ResolverVisitAssignExpr
    \/ ResolverAssignLocal
    \/ ResolverVisitCallExpr
    \/ ResolverVisitGetExpr
    \/ ResolverVisitSetExpr
    \/ ResolverVisitThisExpr
    \/ ResolverVisitSuperExpr

(***************************************************************************)
(* Environments.  E is the table of all environments, env an index into    *)
(* it; index 0 is the nil pointer.                                         *)
(***************************************************************************)
\* An environment that is made its own parent.
NewEnclosingItself(E, parent) == Append(E, [values |-> EmptyMap, parent |-> Len(E) + 1])

NewEnclosedEnvironment(E, parent) == Append(E, [values |-> EmptyMap, parent |-> parent])

\* A Define that writes the outermost environment.
DefineOutermost(E, env, name, value) == [E EXCEPT ![1].values = MapPut(@, name, value)]

Define(E, env, name, value) == [E EXCEPT ![env].values = MapPut(@, name, value)]

\* The environment that Get and Assign reach for the name: the first one on
\* the chain of parents that holds it, 0 when they run off the chain and
\* panic.
RECURSIVE Lookup(_, _, _)
Lookup(E, env, name) ==
    IF env = 0 THEN 0
    ELSE IF name \in DOMAIN E[env].values THEN env
    ELSE Lookup(E, E[env].parent, name)

Get(E, env, name) == Lookup(E, env, name)

EnvAssign(E, env, name, value) ==
    [E EXCEPT ![Lookup(E, env, name)].values = MapPut(@, name, value)]

\* The environment getAt and assignAt walk to; 0 when the walk leaves the
\* chain, where the next dereference is a nil-pointer panic.
RECURSIVE ancestor(_, _, _)
ancestor(E, env, distance) ==
    IF env = 0 \/ distance <= 0 THEN env
    ELSE ancestor(E, E[env].parent, distance - 1)

\* getAt: the value of a Go map read, nil for an absent key.
getAt(E, env, distance, name) ==
    LET current == ancestor(E, env, distance)
    IN IF name \in DOMAIN E[current].values THEN E[current].values[name] ELSE Nil

assignAt(E, env, distance, name, value) ==
    [E EXCEPT ![ancestor(E, env, distance)].values = MapPut(@, name, value)]

(***************************************************************************)
(* Classes, instances and functions.  C is the table of all classes.       *)
(***************************************************************************)
NoFunction == [t |-> "nil"]

\* A lookup that prefers the method of the superclass.
RECURSIVE FindMethodSuperFirst(_, _, _)
FindMethodSuperFirst(C, class, name) ==
    LET inherited == IF C[class].superclass # 0
                     THEN FindMethodSuperFirst(C, C[class].superclass, name)
                     ELSE NoFunction
    IN IF inherited.t # "nil" THEN inherited
       ELSE IF name \in DOMAIN C[class].methods THEN C[class].methods[name]
       ELSE NoFunction

RECURSIVE FindMethod(_, _, _)
FindMethod(C, class, name) ==
    IF name \in DOMAIN C[class].methods THEN C[class].methods[name]
    ELSE IF C[class].superclass # 0 THEN FindMethod(C, C[class].superclass, name)
    ELSE NoFunction

RECURSIVE findMethod(_, _, _)
findMethod(C, class, name) ==
    IF name \in DOMAIN C[class].methods THEN C[class].methods[name]
    ELSE IF C[class].superclass # 0 THEN findMethod(C, C[class].superclass, name)
    ELSE NoFunction

\* An arity that counts one parameter too many.
FunctionArityOff(f) == Len(f.declaration.Params) + 1

FunctionArity(f) == Len(f.declaration.Params)

ClassArity(C, class) ==
    LET initializer == findMethod(C, class, "init")
    IN IF initializer.t # "nil" THEN FunctionArity(initializer) ELSE 0

Arity(C, callee) ==
    IF callee.t = "class" THEN ClassArity(C, callee.id) ELSE FunctionArity(callee)

\* Bind: the environments with the one that holds this added, and the bound
\* function.
BindEnvs(E, f, instance) ==
    Define(NewEnclosedEnvironment(E, f.closure), Len(E) + 1, "this", instance)

Bind(E, f, instance) == LoxFunction(f.declaration, Len(E) + 1, f.isInitializer)

(***************************************************************************)
(* Helpers of the expression visitors.                                     *)
(***************************************************************************)
isTruthy(value) ==
    IF value.t = "nil" THEN FALSE
    ELSE IF value.t = "bool" THEN value.v
    ELSE TRUE

\* Go's == on two interface values: equal dynamic types and equal values,
\* pointers by identity.
isEqual(a, b) ==
    /\ a.t = b.t
    /\ CASE a.t = "nil" -> TRUE
         [] a.t \in {"bool", "num", "str"} -> a.v = b.v
         [] a.t \in {"class", "inst"} -> a.id = b.id
         [] a.t = "fun" -> a.closure = b.closure /\ a.declaration.Name = b.declaration.Name

isNumber(value) == value.t = "num"

isString(value) == value.t = "str"

\* What fmt prints for a pointer to a struct is left open.
stringify(value) ==
    CASE value.t = "nil" -> "nil"
      [] value.t = "bool" -> IF value.v THEN "true" ELSE "false"
      [] value.t = "num" -> ToString(value.v)
      [] value.t = "str" -> value.v
      [] value.t = "fun" -> "<fun>"
      [] value.t = "class" -> "<class>"
      [] value.t = "inst" -> "<instance>"

(***************************************************************************)
(* The interpreter's control.  ctl says what happens next: a statement is  *)
(* executed, an expression is evaluated, a value (nil for a statement)     *)
(* returns to the innermost activation, or a panic unwinds it.             *)
(***************************************************************************)
Exec(stmt) == [k |-> "exec", stmt |-> stmt]
Eval(expr) == [k |-> "eval", expr |-> expr]
Ret(value) == [k |-> "ret", val |-> value]
Panic(sig, value, message) ==
    [k |-> "panic", sig |-> sig, val |-> value, message |-> message]
Idle == [k |-> "idle"]

RuntimePanic(message) == Panic("error", Nil, message)

Top == stack[Len(stack)]
Pop == SubSeq(stack, 1, Len(stack) - 1)
Push(frame) == Append(stack, frame)
ReplaceTop(frame) == [stack EXCEPT ![Len(stack)] = frame]

Executing(kind) == pc = "interpreting" /\ ctl.k = "exec" /\ ctl.stmt.s = kind
Evaluating(kind) == pc = "interpreting" /\ ctl.k = "eval" /\ ctl.expr.e = kind
Resuming(f) == pc = "interpreting" /\ ctl.k = "ret" /\ stack # <<>> /\ Top.f = f
Unwinding(f) == pc = "interpreting" /\ ctl.k = "panic" /\ stack # <<>> /\ Top.f = f

staticVars == <<scanner, parser, src, program, pc, scopes, currentFunction, currentClass, todo, locals>>

(***************************************************************************)
(* Statements.                                                             *)
(***************************************************************************)
\* The loop of InterpretStatements.
InterpretStatementsLoop ==
    /\ Resuming("InterpretStatements")
    /\ IF Top.i > Len(Top.statements)
       THEN /\ pc' = "done"
            /\ stack' = <<>>
            /\ ctl' = Idle
       ELSE /\ pc' = pc
            /\ stack' = ReplaceTop([Top EXCEPT !.i = @ + 1])
            /\ ctl' = Exec(Top.statements[Top.i])
    /\ UNCHANGED <<scanner, parser, src, program, scopes, currentFunction, currentClass, todo, locals,
                   environment, heapVars, output, history>>

\* The deferred function of InterpretStatements: a ReturnValue is printed and
\* the call returns; any other panic goes on to the driver.
InterpretStatementsDefer ==
    /\ Unwinding("InterpretStatements")
    /\ IF ctl.sig = "ReturnValue"
       THEN /\ output' = Append(output, stringify(ctl.val))
            /\ pc' = "done"
            /\ history' = history
       ELSE /\ output' = output
            /\ pc' = "runtime_error"
            /\ history' = [history EXCEPT !.error = ctl.message]
    /\ stack' = <<>>
    /\ ctl' = Idle
    /\ UNCHANGED <<scanner, parser, src, program, scopes, currentFunction, currentClass, todo, locals,
                   environment, heapVars>>

VisitExpressionStmt ==
    /\ Executing("ExpressionStmt")
    /\ stack' = Push([f |-> "VisitExpressionStmt"])
    /\ ctl' = Eval(ctl.stmt.Expression)
    /\ UNCHANGED <<staticVars, environment, heapVars, output, history>>

ExpressionStmtDone ==
    /\ Resuming("VisitExpressionStmt")
    /\ stack' = Pop
    /\ ctl' = Ret(Nil)
    /\ UNCHANGED <<staticVars, environment, heapVars, output, history>>

VisitPrintStmt ==
    /\ Executing("PrintStmt")
    /\ stack' = Push([f |-> "VisitPrintStmt"])
    /\ ctl' = Eval(ctl.stmt.Expression)
    /\ UNCHANGED <<staticVars, environment, heapVars, output, history>>

PrintValue ==
    /\ Resuming("VisitPrintStmt")
    /\ output' = Append(output, stringify(ctl.val))
    /\ stack' = Pop
    /\ ctl' = Ret(Nil)
    /\ UNCHANGED <<staticVars, environment, heapVars, history>>

VisitVarStmt ==
    /\ Executing("VarStmt")
    /\ IF ctl.stmt.Initializer.e # "nil"
       THEN /\ stack' = Push([f |-> "VisitVarStmt", name |-> ctl.stmt.Name])
            /\ ctl' = Eval(ctl.stmt.Initializer)
            /\ envs' = envs
       ELSE /\ envs' = Define(envs, environment, ctl.stmt.Name, Nil)
            /\ stack' = stack
            /\ ctl' = Ret(Nil)
    /\ UNCHANGED <<staticVars, environment, classes, instances, output, history>>

VarDefine ==
    /\ Resuming("VisitVarStmt")
    /\ envs' = Define(envs, environment, Top.name, ctl.val)
    /\ stack' = Pop
    /\ ctl' = Ret(Nil)
    /\ UNCHANGED <<staticVars, environment, classes, instances, output, history>>

\* An activation of executeBlock: its arguments, the position of its loop,
\* and the environment it saved.
BlockFrame(statements, env, previous) ==
    [f |-> "executeBlock", statements |-> statements, i |-> 1, environment |-> env,
     previous |-> previous]

VisitBlockStmt ==
    /\ Executing("BlockStmt")
    /\ envs' = NewEnclosedEnvironment(envs, environment)
    /\ stack' = Push(BlockFrame(ctl.stmt.Statements, Len(envs) + 1, environment))
    /\ environment' = Len(envs) + 1
    /\ ctl' = Ret(Nil)
    /\ UNCHANGED <<staticVars, classes, instances, output, history>>

\* The loop of executeBlock and, at its end, the deferred restore.
executeBlockLoop ==
    /\ Resuming("executeBlock")
    /\ IF Top.i > Len(Top.statements)
       THEN /\ environment' = Top.previous
            /\ stack' = Pop
            /\ ctl' = Ret(Nil)
       ELSE /\ environment' = environment
            /\ stack' = ReplaceTop([Top EXCEPT !.i = @ + 1])
            /\ ctl' = Exec(Top.statements[Top.i])
    /\ UNCHANGED <<staticVars, heapVars, output, history>>

\* A deferred function that restores nothing.
restoredEnvironmentKept(frame, current) == current

\* What the deferred function of executeBlock leaves in i.environment when
\* a panic passes.
restoredEnvironment(frame, current) == frame.previous

\* The deferred function of executeBlock under a panic: restore, re-panic.
executeBlockDefer ==
    /\ Unwinding("executeBlock")
    /\ environment' = restoredEnvironment(Top, environment)
    /\ stack' = Pop
    /\ ctl' = ctl
    /\ UNCHANGED <<staticVars, heapVars, output, history>>

VisitIfStmt ==
    /\ Executing("IfStmt")
    /\ stack' = Push([f |-> "VisitIfStmt", stmt |-> ctl.stmt, phase |-> "condition"])
    /\ ctl' = Eval(ctl.stmt.Condition)
    /\ UNCHANGED <<staticVars, environment, heapVars, output, history>>

IfBranch ==
    /\ Resuming("VisitIfStmt")
    /\ IF Top.phase = "condition" /\ isTruthy(ctl.val)
       THEN /\ stack' = ReplaceTop([Top EXCEPT !.phase = "branch"])
            /\ ctl' = Exec(Top.stmt.ThenBranch)
       ELSE IF Top.phase = "condition" /\ Top.stmt.ElseBranch.s # "nil"
       THEN /\ stack' = ReplaceTop([Top EXCEPT !.phase = "branch"])
            /\ ctl' = Exec(Top.stmt.ElseBranch)
       ELSE /\ stack' = Pop
            /\ ctl' = Ret(Nil)
    /\ UNCHANGED <<staticVars, environment, heapVars, output, history>>

\* An activation of VisitWhileStmt.  defers counts the deferred functions it
\* has registered: one per iteration begun, all run when it is left.
VisitWhileStmt ==
    /\ Executing("WhileStmt")
    /\ stack' = Push([f |-> "VisitWhileStmt", stmt |-> ctl.stmt, defers |-> 0,
                      phase |-> "condition"])
    /\ ctl' = Eval(ctl.stmt.Condition)
    /\ UNCHANGED <<staticVars, environment, heapVars, output, history>>

WhileLoop ==
    /\ Resuming("VisitWhileStmt")
    /\ IF Top.phase = "body"
       THEN /\ stack' = ReplaceTop([Top EXCEPT !.phase = "condition"])
            /\ ctl' = Eval(Top.stmt.Condition)
       ELSE IF isTruthy(ctl.val)
       THEN /\ stack' = ReplaceTop([Top EXCEPT !.phase = "body", !.defers = @ + 1])
            /\ ctl' = Exec(Top.stmt.Body)
       ELSE /\ stack' = Pop
            /\ ctl' = Ret(Nil)
    /\ UNCHANGED <<staticVars, environment, heapVars, output, history>>

\* A loop that recovers a BreakException from its second iteration on only.
whileRecoversLate(frame, panic) == frame.defers > 1 /\ panic.sig = "BreakException"

\* A loop that recovers every panic.
whileRecoversAll(frame, panic) == frame.defers > 0

\* Whether the deferred functions of a VisitWhileStmt activation recover the
\* panic: the first of them to run does, for a BreakException.
whileRecovers(frame, panic) == frame.defers > 0 /\ panic.sig = "BreakException"

WhileDefer ==
    /\ Unwinding("VisitWhileStmt")
    /\ stack' = Pop
    /\ ctl' = IF whileRecovers(Top, ctl) THEN Ret(Nil) ELSE ctl
    /\ UNCHANGED <<staticVars, environment, heapVars, output, history>>

VisitBreakStmt ==
    /\ Executing("BreakStmt")
    /\ ctl' = Panic("BreakException", Nil, "Break statement executed")
    /\ UNCHANGED <<staticVars, environment, heapVars, stack, output, history>>

VisitReturnStmt ==
    /\ Executing("ReturnStmt")
    /\ IF ctl.stmt.Value.e # "nil"
       THEN /\ stack' = Push([f |-> "VisitReturnStmt"])
            /\ ctl' = Eval(ctl.stmt.Value)
       ELSE /\ stack' = stack
            /\ ctl' = Panic("ReturnValue", Nil, "Return value")
    /\ UNCHANGED <<staticVars, environment, heapVars, output, history>>

ReturnValue ==
    /\ Resuming("VisitReturnStmt")
    /\ stack' = Pop
    /\ ctl' = Panic("ReturnValue", ctl.val, "Return value")
    /\ UNCHANGED <<staticVars, environment, heapVars, output, history>>

VisitFunStmt ==
    /\ Executing("FunStmt")
    /\ envs' = Define(envs, environment, ctl.stmt.Name,
                      LoxFunction(ctl.stmt, environment, FALSE))
    /\ ctl' = Ret(Nil)
    /\ UNCHANGED <<staticVars, environment, classes, instances, stack, output, history>>

\* VisitClassStmt once the superclass, if any, is known (0 for none): the
\* environments and the classes it leaves.  The environment pointer moves to
\* the one holding super and back within the call.
classClosure(E, stmt) == IF stmt.Superclass.e # "nil" THEN Len(E) + 1 ELSE environment

classEnvs(E, stmt, superclass) ==
    LET declared == Define(E, environment, stmt.Name, Nil)
        enclosed == IF stmt.Superclass.e # "nil"
                    THEN Define(NewEnclosedEnvironment(declared, environment),
                                Len(E) + 1, "super", ClassRef(superclass))
                    ELSE declared
    IN EnvAssign(enclosed, environment, stmt.Name, ClassRef(Len(classes) + 1))

RECURSIVE classMethods(_, _, _)
classMethods(stmt, closure, i) ==
    IF i > Len(stmt.Methods) THEN EmptyMap
    ELSE MapPut(classMethods(stmt, closure, i + 1), stmt.Methods[i].Name,
                LoxFunction(stmt.Methods[i], closure, stmt.Methods[i].Name = "init"))

LoxClass(stmt, superclass, closure) ==
    [name |-> stmt.Name, superclass |-> superclass,
     methods |-> classMethods(stmt, closure, 1)]

VisitClassStmt ==
    /\ Executing("ClassStmt")
    /\ IF ctl.stmt.Superclass.e # "nil"
       THEN /\ stack' = Push([f |-> "VisitClassStmt", stmt |-> ctl.stmt])
            /\ ctl' = Eval(ctl.stmt.Superclass)
            /\ UNCHANGED <<envs, classes>>
       ELSE /\ envs' = classEnvs(envs, ctl.stmt, 0)
            /\ classes' = Append(classes, LoxClass(ctl.stmt, 0, classClosure(envs, ctl.stmt)))
            /\ stack' = stack
            /\ ctl' = Ret(Nil)
    /\ UNCHANGED <<staticVars, environment, instances, output, history>>

\* An assertion that lets instances through as well.
isLoxClassOrInstance(value) == value.t \in {"class", "inst"}

\* The type assertion superValue.(*LoxClass).
isLoxClass(value) == value.t = "class"

ClassWithSuperclass ==
    /\ Resuming("VisitClassStmt")
    /\ stack' = Pop
    /\ IF ~isLoxClass(ctl.val)
       THEN /\ ctl' = RuntimePanic("Superclass must be a class.")
            /\ UNCHANGED <<envs, classes>>
       ELSE /\ envs' = classEnvs(envs, Top.stmt, ctl.val.id)
            /\ classes' = Append(classes, LoxClass(Top.stmt, ctl.val.id,
                                                   classClosure(envs, Top.stmt)))
            /\ ctl' = Ret(Nil)
    /\ UNCHANGED <<staticVars, environment, instances, output, history>>

(***************************************************************************)
(* Expressions.                                                            *)
(***************************************************************************)
VisitLiteralExpr ==
    /\ Evaluating("Literal")
    /\ ctl' = Ret(ctl.expr.Value)
    /\ UNCHANGED <<staticVars, environment, heapVars, stack, output, history>>

\* The environment lookupVariable reads the name from, 0 when the read
\* panics: the one the side table's distance leads to, or, for a node the side
\* table does not hold, the first on the chain from the current environment
\* that has the name.
lookupVariable(E, tbl, env, name, id) ==
    IF id \in DOMAIN tbl THEN ancestor(E, env, tbl[id]) ELSE Get(E, env, name)

\* The panic of a read or write that finds no environment: Get and Assign
\* report the name, getAt and assignAt dereference a nil pointer.
lookupFailure(tbl, id, name) ==
    IF id \in DOMAIN tbl
    THEN RuntimePanic("invalid memory address or nil pointer dereference")
    ELSE RuntimePanic("Undefined variable '" \o name \o "'.")

\* The closure of the function whose call is the innermost one in progress,
\* 0 outside any call.
RECURSIVE currentClosure(_, _)
currentClosure(stk, i) ==
    IF i = 0 THEN 0
    ELSE IF stk[i].f = "Call" THEN stk[i].function.closure
    ELSE currentClosure(stk, i - 1)

\* History: which environment a function's body read a name of its closure
\* from, per variable node and closure.
recordRead(id, found) ==
    LET closure == currentClosure(stack, Len(stack))
    IN IF closure # 0 /\ found # 0 /\ found <= closure
       THEN [history EXCEPT !.reads = @ \cup {<<id, closure, found>>}]
       ELSE history

ReadVariable(name, id) ==
    LET found == lookupVariable(envs, locals, environment, name, id)
    IN /\ ctl' = IF found = 0
                 THEN lookupFailure(locals, id, name)
                 ELSE IF id \in DOMAIN locals
                 THEN Ret(getAt(envs, environment, locals[id], name))
                 ELSE Ret(envs[found].values[name])
       /\ history' = recordRead(id, found)
       /\ UNCHANGED <<staticVars, environment, heapVars, stack, output>>

VisitVariableExpr ==
    /\ Evaluating("Variable")
    /\ ReadVariable(ctl.expr.Name, ctl.expr.id)

VisitThisExpr ==
    /\ Evaluating("ThisExpr")
    /\ ReadVariable(ctl.expr.Keyword, ctl.expr.id)

VisitAssignExpr ==
    /\ Evaluating("Assign")
    /\ stack' = Push([f |-> "VisitAssignExpr", expr |-> ctl.expr])
    /\ ctl' = Eval(ctl.expr.Value)
    /\ UNCHANGED <<staticVars, environment, heapVars, output, history>>

AssignValue ==
    /\ Resuming("VisitAssignExpr")
    /\ LET expr == Top.expr
           target == lookupVariable(envs, locals, environment, expr.Name, expr.id)
       IN IF target = 0
          THEN /\ ctl' = lookupFailure(locals, expr.id, expr.Name)
               /\ envs' = envs
          ELSE /\ envs' = IF expr.id \in DOMAIN locals
                          THEN assignAt(envs, environment, locals[expr.id], expr.Name, ctl.val)
                          ELSE EnvAssign(envs, environment, expr.Name, ctl.val)
               /\ ctl' = Ret(ctl.val)
    /\ stack' = Pop
    /\ UNCHANGED <<staticVars, environment, classes, instances, output, history>>

VisitBinaryExpr ==
    /\ Evaluating("Binary")
    /\ stack' = Push([f |-> "VisitBinaryExpr", expr |-> ctl.expr, phase |-> "left",
                      left |-> Nil])
    /\ ctl' = Eval(ctl.expr.Left)
    /\ UNCHANGED <<staticVars, environment, heapVars, output, history>>

\* The switch of VisitBinaryExpr.  Numbers are integers here, so the
\* quotient is the integer one.
binaryResult(op, left, right) ==
    CASE op = "+" ->
           IF isString(left) /\ isString(right) THEN Ret(Str(left.v \o right.v))
           ELSE IF isNumber(left) /\ isNumber(right) THEN Ret(Num(left.v + right.v))
           ELSE RuntimePanic("Operands must be two numbers or two strings.")
      [] op \in {"==", "!="} ->
           Ret(Bool(IF op = "==" THEN isEqual(left, right) ELSE ~isEqual(left, right)))
      [] op \in {"-", "*", "/", ">", ">=", "<", "<="} ->
           IF ~(isNumber(left) /\ isNumber(right))
           THEN RuntimePanic("Operands for " \o op \o " must be numbers.")
           ELSE CASE op = "-" -> Ret(Num(left.v - right.v))
                  [] op = "*" -> Ret(Num(left.v * right.v))
                  [] op = "/" -> IF right.v = 0 THEN RuntimePanic("Division by zero.")
                                 ELSE Ret(Num(left.v \div right.v))
                  [] op = ">" -> Ret(Bool(left.v > right.v))
                  [] op = ">=" -> Ret(Bool(left.v >= right.v))
                  [] op = "<" -> Ret(Bool(left.v < right.v))
                  [] op = "<=" -> Ret(Bool(left.v <= right.v))
      [] OTHER -> Ret(Nil)

BinaryOperand ==
    /\ Resuming("VisitBinaryExpr")
    /\ IF Top.phase = "left"
       THEN /\ stack' = ReplaceTop([Top EXCEPT !.phase = "right", !.left = ctl.val])
            /\ ctl' = Eval(Top.expr.Right)
       ELSE /\ stack' = Pop
            /\ ctl' = binaryResult(Top.expr.Operator, Top.left, ctl.val)
    /\ UNCHANGED <<staticVars, environment, heapVars, output, history>>

VisitGetExpr ==
    /\ Evaluating("GetExpr")
    /\ stack' = Push([f |-> "VisitGetExpr", expr |-> ctl.expr])
    /\ ctl' = Eval(ctl.expr.Object)
    /\ UNCHANGED <<staticVars, environment, heapVars, output, history>>

\* LoxInstance.Get, called by VisitGetExpr on an instance.
GetProperty ==
    /\ Resuming("VisitGetExpr")
    /\ stack' = Pop
    /\ LET name == Top.expr.Name
       IN IF ctl.val.t # "inst"
          THEN /\ ctl' = RuntimePanic("Only instances have properties.")
               /\ envs' = envs
          ELSE LET instance == instances[ctl.val.id]
                   method == FindMethod(classes, instance.class, name)
               IN IF name \in DOMAIN instance.fields
                  THEN /\ ctl' = Ret(instance.fields[name])
                       /\ envs' = envs
                  ELSE IF method.t # "nil"
                  THEN /\ ctl' = Ret(Bind(envs, method, ctl.val))
                       /\ envs' = BindEnvs(envs, method, ctl.val)
                  ELSE /\ ctl' = RuntimePanic("Undefined property '" \o name \o "'.")
                       /\ envs' = envs
    /\ UNCHANGED <<staticVars, environment, classes, instances, output, history>>

VisitSetExpr ==
    /\ Evaluating("SetExpr")
    /\ stack' = Push([f |-> "VisitSetExpr", expr |-> ctl.expr, phase |-> "object",
                      object |-> Nil])
    /\ ctl' = Eval(ctl.expr.Object)
    /\ UNCHANGED <<staticVars, environment, heapVars, output, history>>

\* LoxInstance.Set, called by VisitSetExpr once the value is known.
SetProperty ==
    /\ Resuming("VisitSetExpr")
    /\ IF Top.phase = "object" /\ ctl.val.t = "inst"
       THEN /\ stack' = ReplaceTop([Top EXCEPT !.phase = "value", !.object = ctl.val])
            /\ ctl' = Eval(Top.expr.Value)
            /\ instances' = instances
       ELSE IF Top.phase = "object"
       THEN /\ stack' = Pop
            /\ ctl' = RuntimePanic("Only instances have fields.")
            /\ instances' = instances
       ELSE /\ stack' = Pop
            /\ instances' = [instances EXCEPT ![Top.object.id].fields =
                                MapPut(@, Top.expr.Name, ctl.val)]
            /\ ctl' = Ret(ctl.val)
    /\ UNCHANGED <<staticVars, environment, envs, classes, output, history>>

\* The superclass of the class of the instance that this names.
superclassOfReceiver(E, env, distance) ==
    LET object == getAt(E, env, distance - 1, "this")
    IN IF object.t = "inst" /\ classes[instances[object.id].class].superclass # 0
       THEN ClassRef(classes[instances[object.id].class].superclass)
       ELSE Nil

\* The value super names: the one VisitClassStmt stored next to the methods.
superclassAt(E, env, distance) == getAt(E, env, distance, "super")

\* VisitSuperExpr.  A node the side table does not hold has distance 0; the
\* two type assertions panic on anything but a class and an instance.
VisitSuperExpr ==
    /\ Evaluating("SuperExpr")
    /\ LET distance == IF ctl.expr.id \in DOMAIN locals THEN locals[ctl.expr.id] ELSE 0
           atSuper == ancestor(envs, environment, distance)
           atThis == ancestor(envs, environment, distance - 1)
           superclass == IF atSuper = 0 THEN Nil
                         ELSE superclassAt(envs, environment, distance)
           object == IF atThis = 0 THEN Nil
                     ELSE getAt(envs, environment, distance - 1, "this")
           method == IF superclass.t = "class"
                     THEN FindMethod(classes, superclass.id, ctl.expr.Method)
                     ELSE NoFunction
       IN IF atSuper = 0 \/ superclass.t # "class" \/ atThis = 0 \/ object.t # "inst"
          THEN /\ ctl' = RuntimePanic("interface conversion")
               /\ envs' = envs
          ELSE IF method.t = "nil"
          THEN /\ ctl' = RuntimePanic("Undefined property '" \o ctl.expr.Method \o "'.")
               /\ envs' = envs
          ELSE /\ ctl' = Ret(Bind(envs, method, object))
               /\ envs' = BindEnvs(envs, method, object)
    /\ UNCHANGED <<staticVars, environment, classes, instances, stack, output, history>>

(***************************************************************************)
(* Calls.                                                                  *)
(***************************************************************************)
VisitCallExpr ==
    /\ Evaluating("Call")
    /\ stack' = Push([f |-> "VisitCallExpr", expr |-> ctl.expr, phase |-> "callee",
                      callee |-> Nil, arguments |-> <<>>])
    /\ ctl' = Eval(ctl.expr.Callee)
    /\ UNCHANGED <<staticVars, environment, heapVars, output, history>>

\* A loop over the arguments that starts at the last one.
lastArgument(frame) == Len(frame.expr.Arguments) - Len(frame.arguments)

\* The argument that the loop of VisitCallExpr evaluates next.
nextArgument(frame) == Len(frame.arguments) + 1

\* The callee, then the arguments left to right.
CallOperand ==
    /\ Resuming("VisitCallExpr")
    /\ Top.phase \in {"callee", "arguments"}
    /\ LET frame == IF Top.phase = "callee"
                    THEN [Top EXCEPT !.callee = ctl.val, !.phase = "arguments"]
                    ELSE [Top EXCEPT !.arguments = Append(@, ctl.val)]
       IN IF Len(frame.arguments) < Len(frame.expr.Arguments)
          THEN /\ stack' = ReplaceTop(frame)
               /\ ctl' = Eval(frame.expr.Arguments[nextArgument(frame)])
          ELSE /\ stack' = ReplaceTop([frame EXCEPT !.phase = "checks"])
               /\ ctl' = Ret(Nil)
    /\ UNCHANGED <<staticVars, environment, heapVars, output, history>>

RECURSIVE bindParams(_, _, _, _)
bindParams(values, params, arguments, i) ==
    IF i > Len(params) THEN values
    ELSE bindParams(MapPut(values, params[i], arguments[i]), params, arguments, i + 1)

\* LoxFunction.Call up to the first statement of the body: the environment
\* of the call is added to E, and the activations of Call and of executeBlock
\* are pushed on stk.
callEnvs(E, function, arguments) ==
    Append(E, [values |-> bindParams(EmptyMap, function.declaration.Params, arguments, 1),
               parent |-> function.closure])

callFrames(E, stk, function) ==
    stk \o <<[f |-> "Call", function |-> function],
             BlockFrame(function.declaration.Body, Len(E) + 1, environment)>>

\* fmt's %T of a value.
GoType(value) ==
    CASE value.t = "nil" -> "<nil>"
      [] value.t = "bool" -> "bool"
      [] value.t = "num" -> "float64"
      [] value.t = "str" -> "string"
      [] value.t = "inst" -> "*main.LoxInstance"
      [] value.t = "class" -> "*main.LoxClass"
      [] value.t = "fun" -> "*main.LoxFunction"

\* The type assertion, the arity check and the call of function.Call.
Invoke ==
    /\ Resuming("VisitCallExpr")
    /\ Top.phase = "checks"
    /\ LET callee == Top.callee
           arguments == Top.arguments
           calling == ReplaceTop([Top EXCEPT !.phase = "call"])
       IN IF callee.t \notin {"fun", "class"}
          THEN /\ ctl' = RuntimePanic("Can only call functions and classes, got "
                                      \o GoType(callee) \o ".")
               /\ UNCHANGED <<stack, environment, envs, instances>>
          ELSE IF Len(arguments) # Arity(classes, callee)
          THEN /\ ctl' = RuntimePanic("Expected " \o ToString(Arity(classes, callee))
                                      \o " arguments but got "
                                      \o ToString(Len(arguments)) \o ".")
               /\ UNCHANGED <<stack, environment, envs, instances>>
          ELSE IF callee.t = "fun"
          THEN /\ envs' = callEnvs(envs, callee, arguments)
               /\ stack' = callFrames(envs, calling, callee)
               /\ environment' = Len(envs) + 1
               /\ ctl' = Ret(Nil)
               /\ instances' = instances
          ELSE LET instance == InstRef(Len(instances) + 1)
                   initializer == findMethod(classes, callee.id, "init")
                   bound == Bind(envs, initializer, instance)
                   withThis == BindEnvs(envs, initializer, instance)
                   constructing == Append(calling, [f |-> "ClassCall", instance |-> instance])
               IN /\ instances' = Append(instances, [class |-> callee.id, fields |-> EmptyMap])
                  /\ IF initializer.t # "nil"
                     THEN /\ envs' = callEnvs(withThis, bound, arguments)
                          /\ stack' = callFrames(withThis, constructing, bound)
                          /\ environment' = Len(withThis) + 1
                          /\ ctl' = Ret(Nil)
                     ELSE /\ stack' = calling
                          /\ ctl' = Ret(instance)
                          /\ UNCHANGED <<environment, envs>>
    /\ UNCHANGED <<staticVars, classes, output, history>>

\* LoxFunction.Call after executeBlock came back: it returns nil.
CallReturnsNil ==
    /\ Resuming("Call")
    /\ stack' = Pop
    /\ ctl' = Ret(Nil)
    /\ UNCHANGED <<staticVars, environment, heapVars, output, history>>

\* The deferred function of LoxFunction.Call: every panic goes on.
CallDefer ==
    /\ Unwinding("Call")
    /\ stack' = Pop
    /\ ctl' = ctl
    /\ UNCHANGED <<staticVars, environment, heapVars, output, history>>

\* LoxClass.Call after the initializer came back: it returns the instance.
ClassCallReturns ==
    /\ Resuming("ClassCall")
    /\ stack' = Pop
    /\ ctl' = Ret(Top.instance)
    /\ UNCHANGED <<staticVars, environment, heapVars, output, history>>

\* VisitCallExpr when function.Call came back: its value is the call's.
CallValue ==
    /\ Resuming("VisitCallExpr")
    /\ Top.phase = "call"
    /\ stack' = Pop
    /\ ctl' = Ret(ctl.val)
    /\ UNCHANGED <<staticVars, environment, heapVars, output, history>>

\* A call that recovers a ReturnValue only when it carries a value.
callRecoversValue(frame, panic) ==
    frame.phase = "call" /\ panic.sig = "ReturnValue" /\ panic.val.t # "nil"

\* Whether the deferred function around function.Call recovers the panic.
callRecovers(frame, panic) == frame.phase = "call" /\ panic.sig = "ReturnValue"

\* The deferred function around function.Call: a ReturnValue becomes the
\* call's value, any other panic goes on.  Outside function.Call nothing is
\* deferred.
CallRecover ==
    /\ Unwinding("VisitCallExpr")
    /\ stack' = Pop
    /\ ctl' = IF callRecovers(Top, ctl) THEN Ret(ctl.val) ELSE ctl
    /\ UNCHANGED <<staticVars, environment, heapVars, output, history>>

\* The activations that defer nothing: a panic passes them.
NoDefer ==
    {"VisitExpressionStmt", "VisitPrintStmt", "VisitVarStmt", "VisitIfStmt",
     "VisitReturnStmt", "VisitClassStmt", "VisitAssignExpr", "VisitBinaryExpr",
     "VisitGetExpr", "VisitSetExpr", "ClassCall"}

Propagate ==
    /\ pc = "interpreting"
    /\ ctl.k = "panic"
    /\ stack # <<>>
    /\ Top.f \in NoDefer
    /\ stack' = Pop
    /\ ctl' = ctl
    /\ UNCHANGED <<staticVars, environment, heapVars, output, history>>

InterpreterStep ==
    \/ InterpretStatementsLoop \/ InterpretStatementsDefer
    \/ VisitExpressionStmt \/ ExpressionStmtDone
    \/ VisitPrintStmt \/ PrintValue
    \/ VisitVarStmt \/ VarDefine
    \/ VisitBlockStmt \/ executeBlockLoop \/ executeBlockDefer
    \/ VisitIfStmt \/ IfBranch
    \/ VisitWhileStmt \/ WhileLoop \/ WhileDefer
    \/ VisitBreakStmt
    \/ VisitReturnStmt \/ ReturnValue
    \/ VisitFunStmt
    \/ VisitClassStmt \/ ClassWithSuperclass
    \/ VisitLiteralExpr \/ VisitVariableExpr \/ VisitThisExpr
    \/ VisitAssignExpr \/ AssignValue
    \/ VisitBinaryExpr \/ BinaryOperand
    \/ VisitGetExpr \/ GetProperty
    \/ VisitSetExpr \/ SetProperty
    \/ VisitSuperExpr
    \/ VisitCallExpr \/ CallOperand \/ Invoke
    \/ CallReturnsNil \/ CallDefer \/ ClassCallReturns \/ CallValue \/ CallRecover
    \/ Propagate

(***************************************************************************)
(* The driver: the test harness builds an interpreter and a resolver,      *)
(* calls Resolve and then InterpretStatements; a panic of either ends the  *)
(* run.                                                                    *)
(***************************************************************************)
NoHistory == [error |-> "", reads |-> {}]

\* Programs written out by hand, next to the generated ones.
\*   var a = "global";
\*   { fun showA() { print a; } showA(); var a = "block"; showA(); }
ClosureProgram ==
    <<VarStmt("a", Literal(Str("global"))),
      BlockStmt(<<FunStmt("showA", <<>>, <<PrintStmt(Variable("a", 8001))>>),
                  ExpressionStmt(Call(Variable("showA", 8002), <<>>)),
                  VarStmt("a", Literal(Str("block"))),
                  ExpressionStmt(Call(Variable("showA", 8003), <<>>))>>)>>

\*   class Foo { init(x) { this.x = x; } }
\*   var f = Foo(7); print f.x; f.x = f.x + 1; print f.x;
\*   if (f.x < 8) print "small"; else print "large";
FieldProgram ==
    <<ClassStmt("Foo", NoExpr,
                <<FunStmt("init", <<"x">>,
                          <<ExpressionStmt(SetExpr(ThisExpr(8101), "x",
                                                   Variable("x", 8102)))>>)>>),
      VarStmt("f", Call(Variable("Foo", 8103), <<Literal(Num(7))>>)),
      PrintStmt(GetExpr(Variable("f", 8104), "x")),
      ExpressionStmt(SetExpr(Variable("f", 8105), "x",
                             Binary(GetExpr(Variable("f", 8106), "x"), "+",
                                    Literal(Num(1))))),
      PrintStmt(GetExpr(Variable("f", 8107), "x")),
      IfStmt(Binary(GetExpr(Variable("f", 8108), "x"), "<", Literal(Num(8))),
             PrintStmt(Literal(Str("small"))), PrintStmt(Literal(Str("large"))))>>

\*   fun f() { return 1; }
\*   print f();
\*   return 2;
ReturnProgram ==
    <<FunStmt("f", <<>>, <<ReturnStmt(Literal(Num(1)))>>),
      PrintStmt(Call(Variable("f", 8201), <<>>)),
      ReturnStmt(Literal(Num(2)))>>

\*   class A { m() { return this; } }
\*   print A().m();
\*   print this;
ThisProgram ==
    <<ClassStmt("A", NoExpr, <<FunStmt("m", <<>>, <<ReturnStmt(ThisExpr(8301))>>)>>),
      PrintStmt(Call(GetExpr(Call(Variable("A", 8302), <<>>), "m"), <<>>)),
      PrintStmt(ThisExpr(8303))>>

\*   var a = 1;
\*   { var a = 2; var b = 3; print a; }
\*   print a; print b;
ShadowProgram ==
    <<VarStmt("a", Literal(Num(1))),
      BlockStmt(<<VarStmt("a", Literal(Num(2))),
                  VarStmt("b", Literal(Num(3))),
                  PrintStmt(Variable("a", 8401))>>),
      PrintStmt(Variable("a", 8402)),
      PrintStmt(Variable("b", 8403))>>

\*   { var a = a = 1; print a; a = 2; print a; }
\*   z = 3;
SelfAssignProgram ==
    <<BlockStmt(<<VarStmt("a", Assign("a", Literal(Num(1)), 8501)),
                  PrintStmt(Variable("a", 8502)),
                  ExpressionStmt(Assign("a", Literal(Num(2)), 8503)),
                  PrintStmt(Variable("a", 8504))>>),
      ExpressionStmt(Assign("z", Literal(Num(3)), 8505))>>

\*   fun oneArg(x) { print x; }
\*   class K { init(a) { print a; } }
\*   class L < K {}
\*   class E {}
\*   var s = "x";
\* followed by one call, or by a call of each with the right arguments.
ArityCalls(kind) ==
    CASE kind = "arityFun" -> <<Call(Variable("oneArg", 8602), <<>>)>>
      [] kind = "arityMany" ->
             <<Call(Variable("oneArg", 8603), <<Literal(Num(1)), Literal(Num(2))>>)>>
      [] kind = "arityString" -> <<Call(Variable("s", 8604), <<>>)>>
      [] kind = "arityInit" -> <<Call(Variable("K", 8605), <<>>)>>
      [] kind = "arityInherited" -> <<Call(Variable("L", 8606), <<>>)>>
      [] kind = "arityNoInit" -> <<Call(Variable("E", 8607), <<Literal(Num(1))>>)>>
      [] kind = "arityOk" ->
             <<Call(Variable("oneArg", 8608), <<Literal(Num(1))>>),
               Call(Variable("K", 8609), <<Literal(Num(2))>>),
               Call(Variable("L", 8610), <<Literal(Num(3))>>),
               Call(Variable("E", 8611), <<>>)>>

ArityProgram(kind) ==
    <<FunStmt("oneArg", <<"x">>, <<PrintStmt(Variable("x", 8612))>>),
      ClassStmt("K", NoExpr,
                <<FunStmt("init", <<"a">>, <<PrintStmt(Variable("a", 8613))>>)>>),
      ClassStmt("L", Variable("K", 8601), <<>>),
      ClassStmt("E", NoExpr, <<>>),
      VarStmt("s", Literal(Str("x")))>>
    \o [k \in 1..Len(ArityCalls(kind)) |-> ExpressionStmt(ArityCalls(kind)[k])]

\*   class A { m() { print "A.m"; print this.tag; } }
\*   class B < A { m() { print "B.m"; } test() { super.m(); } }
\*   class C < B { m() { print "C.m"; } }
\*   var c = C(); c.tag = "c"; c.test();
SuperProgram ==
    <<ClassStmt("A", NoExpr,
                <<FunStmt("m", <<>>, <<PrintStmt(Literal(Str("A.m"))),
                                       PrintStmt(GetExpr(ThisExpr(8701), "tag"))>>)>>),
      ClassStmt("B", Variable("A", 8702),
                <<FunStmt("m", <<>>, <<PrintStmt(Literal(Str("B.m")))>>),
                  FunStmt("test", <<>>,
                          <<ExpressionStmt(Call(SuperExpr("m", 8703), <<>>))>>)>>),
      ClassStmt("C", Variable("B", 8704),
                <<FunStmt("m", <<>>, <<PrintStmt(Literal(Str("C.m")))>>)>>),
      VarStmt("c", Call(Variable("C", 8705), <<>>)),
      ExpressionStmt(SetExpr(Variable("c", 8706), "tag", Literal(Str("c")))),
      ExpressionStmt(Call(GetExpr(Variable("c", 8707), "test"), <<>>))>>

\*   class Animal { speak() { print "animal"; } name() { print "name"; } }
\*   class Dog < Animal { speak() { print "dog"; } }
\*   var d = Dog(); var e = Dog();
\*   d.speak(); d.name(); d.speak = "field"; print d.speak; e.speak();
\*   print d.missing;
PropertyProgram ==
    <<ClassStmt("Animal", NoExpr,
                <<FunStmt("speak", <<>>, <<PrintStmt(Literal(Str("animal")))>>),
                  FunStmt("name", <<>>, <<PrintStmt(Literal(Str("name")))>>)>>),
      ClassStmt("Dog", Variable("Animal", 8801),
                <<FunStmt("speak", <<>>, <<PrintStmt(Literal(Str("dog")))>>)>>),
      VarStmt("d", Call(Variable("Dog", 8802), <<>>)),
      VarStmt("e", Call(Variable("Dog", 8803), <<>>)),
      ExpressionStmt(Call(GetExpr(Variable("d", 8804), "speak"), <<>>)),
      ExpressionStmt(Call(GetExpr(Variable("d", 8805), "name"), <<>>)),
      ExpressionStmt(SetExpr(Variable("d", 8806), "speak", Literal(Str("field")))),
      PrintStmt(GetExpr(Variable("d", 8807), "speak")),
      ExpressionStmt(Call(GetExpr(Variable("e", 8808), "speak"), <<>>)),
      PrintStmt(GetExpr(Variable("d", 8809), "missing"))>>

\*   var NotAClass = "not a class"; class Subclass < NotAClass {}
SuperclassStringProgram ==
    <<VarStmt("NotAClass", Literal(Str("not a class"))),
      ClassStmt("Subclass", Variable("NotAClass", 8901), <<>>)>>

\*   class A {} { var a = A(); class Subclass < a {} }
SuperclassInstanceProgram ==
    <<ClassStmt("A", NoExpr, <<>>),
      BlockStmt(<<VarStmt("a", Call(Variable("A", 8902), <<>>)),
                  ClassStmt("Subclass", Variable("a", 8903), <<>>)>>)>>

\*   { var v = "captured"; class K { m() { print v; print this.tag; } }
\*     var k = K(); k.tag = "k"; k.m(); }
CapturedProgram ==
    <<BlockStmt(<<VarStmt("v", Literal(Str("captured"))),
                  ClassStmt("K", NoExpr,
                            <<FunStmt("m", <<>>,
                                      <<PrintStmt(Variable("v", 9101)),
                                        PrintStmt(GetExpr(ThisExpr(9102), "tag"))>>)>>),
                  VarStmt("k", Call(Variable("K", 9103), <<>>)),
                  ExpressionStmt(SetExpr(Variable("k", 9104), "tag", Literal(Str("k")))),
                  ExpressionStmt(Call(GetExpr(Variable("k", 9105), "m"), <<>>))>>)>>

\* A variable read in the initializer of its own declaration:
\*   { var x = x + 5; }
\*   var x = 10; { var x = x + 5; print x; }
\*   var x = 10; var x = x + 5; print x;
\*   var x = x;
InitializerKinds == {"initLocal", "initShadow", "initGlobal", "initUndefined"}

InitializerProgram(kind) ==
    LET own == VarStmt("x", Binary(Variable("x", 9201), "+", Literal(Num(5))))
        outer == VarStmt("x", Literal(Num(10)))
        shown == PrintStmt(Variable("x", 9202))
    IN CASE kind = "initLocal" -> <<BlockStmt(<<own>>)>>
         [] kind = "initShadow" -> <<outer, BlockStmt(<<own, shown>>)>>
         [] kind = "initGlobal" -> <<outer, own, shown>>
         [] kind = "initUndefined" -> <<VarStmt("x", Variable("x", 9203))>>

\* A name declared twice:
\*   { var a = 1; var a = 2; }            { var a = 1; fun a() {} }
\*   { fun a() {} class a {} }            fun f(a, a) {}
\*   fun f(a) { var a = 1; }              class K { m(a, b, a) {} }
\*   var a = 1; var a = 2; fun a() {} class a {} { var a = 3; fun f(a) {} }
RedeclareKinds ==
    {"redeclareVar", "redeclareFun", "redeclareClass", "redeclareParam",
     "redeclareParamVar", "redeclareMethodParam", "redeclareGlobal"}

RedeclareProgram(kind) ==
    LET one == VarStmt("a", Literal(Num(1)))
        two == VarStmt("a", Literal(Num(2)))
        fun == FunStmt("a", <<>>, <<>>)
        class == ClassStmt("a", NoExpr, <<>>)
    IN CASE kind = "redeclareVar" -> <<BlockStmt(<<one, two>>)>>
         [] kind = "redeclareFun" -> <<BlockStmt(<<one, fun>>)>>
         [] kind = "redeclareClass" -> <<BlockStmt(<<fun, class>>)>>
         [] kind = "redeclareParam" -> <<FunStmt("f", <<"a", "a">>, <<>>)>>
         [] kind = "redeclareParamVar" -> <<FunStmt("f", <<"a">>, <<one>>)>>
         [] kind = "redeclareMethodParam" ->
                <<ClassStmt("K", NoExpr, <<FunStmt("m", <<"a", "b", "a">>, <<>>)>>)>>
         [] kind = "redeclareGlobal" ->
                <<one, two, fun, class,
                  BlockStmt(<<VarStmt("a", Literal(Num(3))),
                              FunStmt("f", <<"a">>, <<>>)>>)>>

\* Operands that show when they are evaluated, after
\*   fun p(n) { print n; return n; }   fun s(x, y, z) { return y; }
\*   var a = 0;   fun q() { print a; return 9; }
\* and then one of
\*   print p(1) + p(2);                print p("a") - p(2);
\*   print s(p(1), p(2), p(3));        p(p(1), p(2), p(3));
\*   p(1)(p(2), p(3));                 a = q(); print a;
OrderKinds ==
    {"orderBinary", "orderOperands", "orderArguments", "orderArity",
     "orderCallable", "orderAssign"}

OrderProgram(kind) ==
    LET p(n, id) == Call(Variable("p", id), <<Literal(n)>>)
        three == <<p(Num(1), 9311), p(Num(2), 9312), p(Num(3), 9313)>>
    IN <<FunStmt("p", <<"n">>, <<PrintStmt(Variable("n", 9301)),
                                 ReturnStmt(Variable("n", 9302))>>),
         FunStmt("s", <<"x", "y", "z">>, <<ReturnStmt(Variable("y", 9303))>>),
         VarStmt("a", Literal(Num(0))),
         FunStmt("q", <<>>, <<PrintStmt(Variable("a", 9304)),
                              ReturnStmt(Literal(Num(9)))>>)>>
       \o CASE kind = "orderBinary" ->
                 <<PrintStmt(Binary(p(Num(1), 9311), "+", p(Num(2), 9312)))>>
            [] kind = "orderOperands" ->
                 <<PrintStmt(Binary(p(Str("a"), 9311), "-", p(Num(2), 9312)))>>
            [] kind = "orderArguments" ->
                 <<PrintStmt(Call(Variable("s", 9314), three))>>
            [] kind = "orderArity" ->
                 <<ExpressionStmt(Call(Variable("p", 9315), three))>>
            [] kind = "orderCallable" ->
                 <<ExpressionStmt(Call(p(Num(1), 9311),
                                       <<p(Num(2), 9312), p(Num(3), 9313)>>))>>
            [] kind = "orderAssign" ->
                 <<ExpressionStmt(Assign("a", Call(Variable("q", 9316), <<>>), 9317)),
                   PrintStmt(Variable("a", 9318))>>

\* For statements with every combination of clauses, after
\*   fun p(n) { print n; return n; }   var n = 0;
\*   fun c() { print "cond"; return n < 5; }   fun k() { print "cond"; return n < 2; }
\* The loops with the letters I, C and N have that clause of
\*   for (p("init"); c(); p("incr"))
\*     { print "body"; n = n + 1; if (n == 2) break; print "after"; }
\* and end by the break; the counted one is
\*   for (p("init"); k(); p("incr")) { print "body"; n = n + 1; }
\* They are followed by print "end";.
WithInitializer == {"forICN", "forIC", "forIN", "forI", "forCounted"}
WithCondition == {"forICN", "forIC", "forCN", "forC", "forCounted"}
WithIncrement == {"forICN", "forIN", "forCN", "forN", "forCounted"}
ForKinds == WithInitializer \cup WithCondition \cup WithIncrement \cup {"forBare"}

ForInitializer ==
    ExpressionStmt(Call(Variable("p", 9401), <<Literal(Str("init"))>>))

ForCondition(kind) ==
    Call(Variable(IF kind = "forCounted" THEN "k" ELSE "c", 9402), <<>>)

ForIncrement == Call(Variable("p", 9403), <<Literal(Str("incr"))>>)

ForBody(kind) ==
    LET counted ==
            <<PrintStmt(Literal(Str("body"))),
              ExpressionStmt(Assign("n", Binary(Variable("n", 9404), "+",
                                                Literal(Num(1))), 9405))>>
    IN IF kind = "forCounted" THEN BlockStmt(counted)
       ELSE BlockStmt(counted
                      \o <<IfStmt(Binary(Variable("n", 9406), "==", Literal(Num(2))),
                                  BreakStmt, NoStmt),
                           PrintStmt(Literal(Str("after")))>>)

ForProgram(kind) ==
    LET bound(limit, id) ==
            <<PrintStmt(Literal(Str("cond"))),
              ReturnStmt(Binary(Variable("n", id), "<", Literal(Num(limit))))>>
    IN <<FunStmt("p", <<"n">>, <<PrintStmt(Variable("n", 9407)),
                                 ReturnStmt(Variable("n", 9408))>>),
         VarStmt("n", Literal(Num(0))),
         FunStmt("c", <<>>, bound(5, 9409)),
         FunStmt("k", <<>>, bound(2, 9410)),
         forStatement(IF kind \in WithInitializer THEN ForInitializer ELSE NoStmt,
                      IF kind \in WithCondition THEN ForCondition(kind) ELSE NoExpr,
                      IF kind \in WithIncrement THEN ForIncrement ELSE NoExpr,
                      ForBody(kind)),
         PrintStmt(Literal(Str("end")))>>

\* A class that names itself as its superclass, in a block:
\*   { class A < A {} }
SelfSuperclassProgram ==
    <<BlockStmt(<<ClassStmt("A", Variable("A", 9501), <<>>)>>)>>

ArityKinds ==
    {"arityFun", "arityMany", "arityString", "arityInit", "arityInherited",
     "arityNoInit", "arityOk"}

Scenarios ==
    <<"closure", "fields", "returnAfterFun", "thisAfterClass", "shadow",
      "selfAssign", "arityFun", "arityMany", "arityString", "arityInit",
      "arityInherited", "arityNoInit", "arityOk", "superChain", "properties",
      "superclassString", "superclassInstance", "captured", "initLocal",
      "initShadow", "initGlobal", "initUndefined", "redeclareVar",
      "redeclareFun", "redeclareClass", "redeclareParam", "redeclareParamVar",
      "redeclareMethodParam", "redeclareGlobal", "orderBinary",
      "orderOperands", "orderArguments", "orderArity", "orderCallable",
      "orderAssign", "forICN", "forIC", "forIN", "forI", "forCN", "forC",
      "forN", "forBare", "forCounted", "selfSuperclass">>

Scenario(name) ==
    CASE name = "closure" -> ClosureProgram
      [] name = "fields" -> FieldProgram
      [] name = "returnAfterFun" -> ReturnProgram
      [] name = "thisAfterClass" -> ThisProgram
      [] name = "shadow" -> ShadowProgram
      [] name = "selfAssign" -> SelfAssignProgram
      [] name \in ArityKinds -> ArityProgram(name)
      [] name = "superChain" -> SuperProgram
      [] name = "properties" -> PropertyProgram
      [] name = "superclassString" -> SuperclassStringProgram
      [] name = "superclassInstance" -> SuperclassInstanceProgram
      [] name = "captured" -> CapturedProgram
      [] name \in InitializerKinds -> InitializerProgram(name)
      [] name \in RedeclareKinds -> RedeclareProgram(name)
      [] name \in OrderKinds -> OrderProgram(name)
      [] name \in ForKinds -> ForProgram(name)
      [] name = "selfSuperclass" -> SelfSuperclassProgram

\* NewResolver and NewInterpreter.
Constructed ==
    /\ scopes = <<>>
    /\ currentFunction = FunctionNone
    /\ currentClass = ClassNone
    /\ todo = <<>>
    /\ locals = [n \in {} |-> 0]
    /\ environment = globals
    /\ envs = <<[values |-> EmptyMap, parent |-> 0]>>
    /\ classes = <<>>
    /\ instances = <<>>
    /\ stack = <<>>
    /\ ctl = Idle
    /\ output = <<>>
    /\ history = NoHistory

Init ==
    /\ \/ \E ws \in WrapSeqs, leaf \in Leaves :
              /\ src = <<ws, leaf>>
              /\ program = Generated(ws, leaf)
       \/ \E k \in 1..Len(Scenarios) :
              /\ src = <<<<>>, Scenarios[k]>>
              /\ program = Scenario(Scenarios[k])
    /\ pc = "start"
    /\ scanner = NewScanner(<<>>)
    /\ parser = NewParser(<<>>, Sink)
    /\ Constructed

\* The driver calls Resolve.
Resolve ==
    /\ pc = "start"
    /\ pc' = "resolving"
    /\ todo' = StmtTasks(program)
    /\ UNCHANGED <<scanner, parser, src, program, scopes, currentFunction, currentClass, locals,
                   interpVars>>

\* A driver that does not wait for Resolve.
resolvedEarly == pc = "resolving"

\* Resolve has returned: no work is left and nothing panicked.
resolved == pc = "resolving" /\ todo = <<>>

\* The driver calls InterpretStatements once Resolve has returned.
InterpretStatements ==
    /\ resolved
    /\ pc' = "interpreting"
    /\ stack' = <<[f |-> "InterpretStatements", statements |-> program, i |-> 1]>>
    /\ ctl' = Ret(Nil)
    /\ UNCHANGED <<scanner, parser, src, program, scopes, currentFunction, currentClass, todo, locals,
                   environment, heapVars, output, history>>

Next == Resolve \/ ResolverStep \/ InterpretStatements \/ InterpreterStep

Spec == Init /\ [][Next]_vars

(***************************************************************************)
(* Bind applied to its own result.  LoxFunction.Bind is a method any       *)
(* holder of a *LoxFunction can call; the interpreter itself only calls it *)
(* on the functions of a class's method table.  Rebind is a caller that    *)
(* takes the function Bind has just returned, f.Bind(x), and binds it to   *)
(* the same instance again, so that f.Bind(x).Bind(x) goes on in its       *)
(* place.                                                                  *)
(***************************************************************************)
BoundOnce(value) ==
    /\ value.t = "fun"
    /\ value.closure = Len(envs)
    /\ DOMAIN envs[value.closure].values = {"this"}
    /\ DOMAIN envs[envs[value.closure].parent].values # {"this"}

Rebind ==
    /\ pc = "interpreting"
    /\ ctl.k = "ret"
    /\ BoundOnce(ctl.val)
    /\ LET instance == envs[ctl.val.closure].values["this"]
       IN /\ envs' = BindEnvs(envs, ctl.val, instance)
          /\ ctl' = Ret(Bind(envs, ctl.val, instance))
    /\ UNCHANGED <<staticVars, environment, classes, instances, stack, output, history>>

BindNext == Rebind \/ Next

BindSpec == Init /\ [][BindNext]_vars

(***************************************************************************)
(* ScanTokens on its own: the sources are every string of at most          *)
(* MaxSource characters of Alphabet, and the inputs of the scanner's       *)
(* tests, shortened.                                                       *)
(***************************************************************************)
Alphabet == {"/", "*", "\"", " ", "\n", "a", "1", ".", "=", "@"}

TestSources ==
    {<<"/", "/", " ", "c", "\n", "4", "2">>,
     <<"/", "*", " ", "a", "\n", "b", " ", "*", "/", "4", "2">>,
     <<"(", "1", " ", "/", "*", "c", "*", "/", " ", "+", " ", "a", ")">>,
     <<"/", "*", " ", "u", "n">>,
     <<"v", "a", "r", " ", "x", "_", "1", " ", "!", "=", " ", "\"", "a", " ", "b", "\"", ";">>,
     <<"1", "2", ".", "5", "<", "=", "\t", "n", "i", "l", "\r", "\n", "{", "}">>}

Sources == SeqsUpTo(Alphabet, MaxSource) \cup TestSources

ScanInit ==
    /\ \E source \in Sources : scanner = NewScanner(source)
    /\ parser = NewParser(<<>>, Sink)
    /\ src = <<<<>>, "scan">>
    /\ program = <<>>
    /\ pc = "scanning"
    /\ Constructed

\* One turn of the loop of ScanTokens.
ScanToken ==
    /\ pc = "scanning"
    /\ ~isAtEnd(scanner)
    /\ scanner' = scanToken([scanner EXCEPT !.start = scanner.current])
    /\ UNCHANGED <<parser, src, program, pc, resolverVars, locals, interpVars>>

\* The loop has ended: ScanTokens appends the last token and returns.
ScanTokensReturn ==
    /\ pc = "scanning"
    /\ isAtEnd(scanner)
    /\ scanner' = appendEof(scanner)
    /\ pc' = "scanned"
    /\ UNCHANGED <<parser, src, program, resolverVars, locals, interpVars>>

ScanNext == ScanToken \/ ScanTokensReturn

ScanSpec == ScanInit /\ [][ScanNext]_vars

(***************************************************************************)
(* ParseStatements on its own.  The sources declare one function f with n  *)
(* parameters, as the test of the parameter limit does:                    *)
(*   fun f(x,x,...,x){}           fun f(x,x,...,x){break;}                 *)
(*   fun f(x,x,...,x,){}          fun f(x,x,...,x{}                        *)
(*   fun f(x,x,...,x){{fun f(x){}}break;}                                  *)
(* They are scanned by ScanTokens, and parsed with and without a writer,   *)
(* one declaration, one parameter and one block at a time.                 *)
(***************************************************************************)
ParameterSource(n) ==
    IF n = 0 THEN <<>> ELSE [i \in 1..(2 * n - 1) |-> IF i % 2 = 1 THEN "x" ELSE ","]

Shapes == {"plain", "break", "nested", "trailingComma", "unclosed"}

FunSource(n, shape) ==
    <<"f", "u", "n", " ", "f", "(">> \o ParameterSource(n)
    \o (CASE shape = "trailingComma" -> <<",", ")", "{", "}">>
           [] shape = "unclosed" -> <<"{", "}">>
           [] shape = "break" -> <<")", "{", "b", "r", "e", "a", "k", ";", "}">>
           [] shape = "nested" -> <<")", "{", "{", "f", "u", "n", " ", "f", "(", "x", ")", "{",
                                    "}", "}", "b", "r", "e", "a", "k", ";", "}">>
           [] OTHER -> <<")", "{", "}">>)

\* A few parameters in every shape, and about as many as the limit.
ParameterCounts == (0..3) \cup ((ParameterLimit - 1)..MaxParams)

ParseInit ==
    /\ \E n \in ParameterCounts, shape \in Shapes, stdErr \in {NilWriter, Sink} :
          /\ n > 3 => shape = "plain"
          /\ src = <<n, shape>>
          /\ scanner = NewScanner(FunSource(n, shape))
          /\ parser = NewParser(<<>>, stdErr)
    /\ program = <<>>
    /\ pc = "scanning"
    /\ Constructed

\* The driver hands the tokens to the parser and calls ParseStatements.
ParseStatements ==
    /\ pc = "scanned"
    /\ parser' = NewParser(scanner.tokens, parser.stdErr)
    /\ pc' = "parsing"
    /\ UNCHANGED <<scanner, src, program, resolverVars, locals, interpVars>>

\* A panic leaves ParseStatements through its deferred function, which
\* panics again with the same value: no statement list is returned.
Parsed(p) == IF p.panic # "" THEN "parse_panic" ELSE "parsing"

Activation(p) == p.frames[Len(p.frames)]

\* The activation that called the innermost returns to its caller.
Leave(p) == [p EXCEPT !.frames = SubSeq(@, 1, Len(@) - 1), !.val = Nil, !.more = FALSE]

Enter(p, frame) == [p EXCEPT !.frames = Append(@, frame), !.val = Nil, !.more = FALSE]

\* The innermost loop over declarations appends the one that was parsed.
Declare(p, stmt) ==
    [p EXCEPT !.frames[Len(p.frames)].statements = Append(@, stmt),
              !.val = Nil, !.more = FALSE]

\* The loops of ParseStatements and of block go on.
Looping(p) ==
    CASE Activation(p).at = "ParseStatements" -> ~parserIsAtEnd(p)
      [] Activation(p).at = "block" -> ~check(p, "TokenRightBrace") /\ ~parserIsAtEnd(p)
      [] OTHER -> FALSE

\* One turn of the loop of ParseStatements or of block: a declaration, up to
\* the parameters when it is a function, up to the brace when it is a block.
ParseDeclaration ==
    /\ pc = "parsing"
    /\ Looping(parser)
    /\ LET declared ==
               IF check(parser, "TokenFun")
               THEN functionName(parserAdvance(parser), "function")
               ELSE IF check(parser, "TokenLeftBrace") THEN parserAdvance(parser)
               ELSE parseStatement(parser)
       IN /\ parser' =
               IF declared.panic # "" THEN declared
               ELSE IF check(parser, "TokenFun")
               THEN Enter(declared, ParserFrame(IF declared.more THEN "parameters"
                                                ELSE "body", declared.val))
               ELSE IF check(parser, "TokenLeftBrace")
               THEN Enter(declared, ParserFrame("block", ""))
               ELSE Declare(declared, declared.val)
          /\ pc' = Parsed(declared)
    /\ UNCHANGED <<scanner, src, program, resolverVars, locals, interpVars>>

\* One turn of the loop of function over the parameters.
FunctionParameter ==
    /\ pc = "parsing"
    /\ Activation(parser).at = "parameters"
    /\ LET listed == parameter(parser, Activation(parser).parameters)
       IN /\ parser' =
               IF listed.panic # "" THEN listed
               ELSE [listed EXCEPT
                        !.frames[Len(parser.frames)].parameters = listed.val,
                        !.frames[Len(parser.frames)].at =
                            IF listed.more THEN "parameters" ELSE "body",
                        !.val = Nil, !.more = FALSE]
          /\ pc' = Parsed(listed)
    /\ UNCHANGED <<scanner, src, program, resolverVars, locals, interpVars>>

\* The function declaration from the end of its parameters to its body.
FunctionBody ==
    /\ pc = "parsing"
    /\ Activation(parser).at = "body"
    /\ LET opened == functionOpen(parser, "function")
       IN /\ parser' = IF opened.panic # "" THEN opened
                       ELSE Enter([opened EXCEPT !.frames[Len(parser.frames)].at = "function"],
                                  ParserFrame("block", ""))
          /\ pc' = Parsed(opened)
    /\ UNCHANGED <<scanner, src, program, resolverVars, locals, interpVars>>

\* The loop of block has ended: the block returns its statements, to the
\* function that declares them as its body or to the block statement, and
\* the declaration is appended by the loop around it.
BlockReturn ==
    /\ pc = "parsing"
    /\ Activation(parser).at = "block"
    /\ ~Looping(parser)
    /\ LET closed == consume(parser, "TokenRightBrace", "Expect '}' after block.")
           statements == Activation(parser).statements
           caller == Activation(Leave(parser))
       IN /\ parser' =
               IF closed.panic # "" THEN closed
               ELSE IF caller.at = "function"
               THEN Declare(Leave(Leave(closed)),
                            functionClose(Returned(closed, statements), caller.name,
                                          caller.parameters).val)
               ELSE Declare(Leave(closed), BlockStmt(statements))
          /\ pc' = Parsed(closed)
    /\ UNCHANGED <<scanner, src, program, resolverVars, locals, interpVars>>

\* The loop has ended: ParseStatements returns the statements and no error.
ParseStatementsReturn ==
    /\ pc = "parsing"
    /\ Activation(parser).at = "ParseStatements"
    /\ parserIsAtEnd(parser)
    /\ program' = Activation(parser).statements
    /\ pc' = "parsed"
    /\ UNCHANGED <<scanner, parser, src, resolverVars, locals, interpVars>>

ParseNext ==
    \/ ScanNext
    \/ ParseStatements
    \/ ParseDeclaration
    \/ FunctionParameter
    \/ FunctionBody
    \/ BlockReturn
    \/ ParseStatementsReturn

ParseSpec == ParseInit /\ [][ParseNext]_vars

(***************************************************************************)
(* What the activations on the stack say about the run.                    *)
(***************************************************************************)
Innermost(S) == CHOOSE i \in S : \A j \in S : j <= i

\* The activations of executeBlock in progress.
BlockFrames == {i \in 1..Len(stack) : stack[i].f = "executeBlock"}

\* The environment in force before the executeBlock activation i began: the
\* one of the activation that encloses it, the globals outside any.
EnclosingEnvironment(i) ==
    LET outer == {j \in BlockFrames : j < i}
    IN IF outer = {} THEN globals ELSE stack[Innermost(outer)].environment

\* C1: i.environment is the environment of the innermost executeBlock in
\* progress and the globals when none is, and each executeBlock holds as
\* previous the environment that was in force when it began.  So whichever
\* way an executeBlock is left (end of its statements, Break, Return, runtime
\* error) the pointer is back at what it was before the block was entered,
\* and it is the globals between top-level statements and at the end.
C1_EnvironmentRestored ==
    /\ environment = EnclosingEnvironment(Len(stack) + 1)
    /\ \A i \in BlockFrames : stack[i].previous = EnclosingEnvironment(i)

\* A runtime error has unwound two nested blocks and reached the top level.
C1_Witness ==
    /\ src = <<(<<"block", "block">>), "error">>
    /\ pc = "interpreting"
    /\ ctl.k = "panic"
    /\ Len(stack) = 1
    /\ Len(envs) = 3
    /\ environment = globals

\* C2: a function's body reads a name of its closure from one environment,
\* the same on every call.
C2_SameBindingEveryCall ==
    \A r1 \in history.reads, r2 \in history.reads :
        (r1[1] = r2[1] /\ r1[2] = r2[2]) => r1[3] = r2[3]

\* The loops whose body is running.
LoopFrames ==
    {i \in 1..Len(stack) : stack[i].f = "VisitWhileStmt" /\ stack[i].phase = "body"}

Breaking == pc = "interpreting" /\ ctl.k = "panic" /\ ctl.sig = "BreakException"

IsLoop(w) == w \in {"while", "for"}

\* How often one execution of wrapper w runs the statements it wraps.
Runs(w) == IF IsLoop(w) THEN LoopRuns ELSE IF w = "init" THEN 2 ELSE 1

RECURSIVE RunsThrough(_, _)
RunsThrough(ws, d) == IF d = 0 THEN 1 ELSE Runs(ws[d]) * RunsThrough(ws, d - 1)

Printed(line) == Cardinality({i \in 1..Len(output) : output[i] = line})

\* The deepest loop of the generated program, 0 when it has none.
DeepestLoop(ws) ==
    LET loops == {d \in 1..Len(ws) : IsLoop(ws[d])}
    IN IF loops = {} THEN 0 ELSE Innermost(loops)

\* C3: a Break under a running loop body leaves one activation per step,
\* running nothing, until it meets the innermost VisitWhileStmt whose body is
\* running; that loop ends there as a completed statement, its condition is
\* not evaluated again, and the activations outside it stay.  In a generated
\* program whose innermost statement is break, nothing after the break in
\* the innermost loop prints, and every construct outside that loop prints
\* as often as it does when it runs to its end.
C3_BreakEndsInnermostLoop ==
    /\ [][(Breaking /\ LoopFrames # {}) =>
            /\ stack' = Pop
            /\ output' = output
            /\ heapVars' = heapVars
            /\ pc' = pc
            /\ (Len(stack) \in LoopFrames => (ctl'.k = "ret" /\ ctl'.val.t = "nil"))
            /\ (Top.f # "VisitWhileStmt" => ctl' = ctl)]_vars
    /\ [](LET ws == src[1]
              loop == DeepestLoop(ws)
          IN (pc = "done" /\ src[2] = "break" /\ loop # 0) =>
                \A d \in 1..Len(ws) :
                    Printed(NameAt(ws[d], d)) =
                        IF d < loop THEN RunsThrough(ws, d) ELSE 0)

\* A break in the inner of two nested loops has just been caught, the outer
\* loop's body still running.
C3_Witness ==
    /\ src = <<(<<"while", "for">>), "break">>
    /\ pc = "interpreting"
    /\ ctl.k = "ret"
    /\ Cardinality(LoopFrames) = 1
    /\ Len(stack) > 0
    /\ Top.f = "executeBlock"
    /\ Top.i > 1
    /\ Top.statements[Top.i - 1].s = "WhileStmt"
    /\ Printed("while1") = 1

Returning == pc = "interpreting" /\ ctl.k = "panic" /\ ctl.sig = "ReturnValue"

\* The call expressions whose function.Call is in progress.
CallFrames ==
    {i \in 1..Len(stack) : stack[i].f = "VisitCallExpr" /\ stack[i].phase = "call"}

SameValue(a, b) ==
    /\ a.t = b.t
    /\ a.t \in {"bool", "num", "str"} => a.v = b.v
    /\ a.t \in {"class", "inst"} => a.id = b.id
    /\ a.t = "fun" => a.closure = b.closure

IsCall(w) == w \in {"fun", "method", "submethod", "init"}

\* The deepest function or method of the generated program, 0 when it has
\* none.
DeepestCall(ws) ==
    LET calls == {d \in 1..Len(ws) : IsCall(ws[d])}
    IN IF calls = {} THEN 0 ELSE Innermost(calls)

Finished == pc \in {"done", "runtime_error", "static_error"}

\* C4: a ReturnValue leaves one activation per step, running nothing, until
\* it meets the innermost call expression whose function.Call is in progress;
\* that call expression evaluates to the carried value (nil for a bare
\* return) and the activations outside it stay.  LoxFunction.Call returns nil
\* when the body ends without a return, and the call expression evaluates to
\* what function.Call returned.  In a generated program whose innermost
\* statement is a return, nothing after the return in the innermost function
\* prints, the value printed for that call is the returned one, and every
\* construct outside that function prints as often as when it runs to its end.
C4_ReturnEndsInnermostCall ==
    /\ [][/\ (Returning /\ CallFrames # {}) =>
                /\ stack' = Pop
                /\ output' = output
                /\ heapVars' = heapVars
                /\ pc' = pc
                /\ (Len(stack) \in CallFrames =>
                        (ctl'.k = "ret" /\ SameValue(ctl'.val, ctl.val)))
                /\ (Len(stack) \notin CallFrames => ctl' = ctl)
          /\ Resuming("Call") =>
                (stack' = Pop /\ ctl'.k = "ret" /\ ctl'.val.t = "nil")
          /\ (Resuming("VisitCallExpr") /\ Top.phase = "call") =>
                (stack' = Pop /\ ctl'.k = "ret" /\ SameValue(ctl'.val, ctl.val))]_vars
    /\ [](LET ws == src[1]
              call == DeepestCall(ws)
          IN (/\ Finished
              /\ src[2] \in {"return", "returnval"}
              /\ call # 0
              /\ \A d \in 1..Len(ws) : ws[d] # "init") =>
                /\ pc = "done"
                /\ \A d \in 1..Len(ws) :
                       Printed(NameAt(ws[d], d)) =
                           IF d < call THEN RunsThrough(ws, d) ELSE 0
                /\ Printed("7") =
                       IF src[2] = "returnval" THEN RunsThrough(ws, call - 1) ELSE 0)

\* The inner of two nested calls has returned 7 to the print statement of the
\* outer function's body, the outer call still in progress.
C4_Witness ==
    /\ src = <<(<<"fun", "fun">>), "returnval">>
    /\ pc = "interpreting"
    /\ ctl.k = "ret"
    /\ ctl.val.t = "num"
    /\ ctl.val.v = 7
    /\ Len(stack) > 0
    /\ Top.f = "VisitPrintStmt"
    /\ Cardinality(CallFrames) = 1

\* C5: a call expression whose callee is a class, or a bound method named
\* init, evaluates to an instance, and for the bound method to the instance
\* it is bound to, whether the initializer's body ends or executes a return.
C5_InitializerYieldsInstance ==
    [][(/\ pc = "interpreting"
        /\ stack # <<>>
        /\ Top.f = "VisitCallExpr"
        /\ Top.phase = "call"
        /\ ctl.k = "ret" \/ (ctl.k = "panic" /\ ctl.sig = "ReturnValue")
        /\ Top.callee.t = "class" \/ (Top.callee.t = "fun" /\ Top.callee.isInitializer)) =>
            /\ ctl'.k = "ret"
            /\ ctl'.val.t = "inst"
            /\ Top.callee.t = "fun" =>
                   ctl'.val.id = envs[Top.callee.closure].values["this"].id]_vars

\* The resolveFunction activations in progress, innermost first.
OpenFunctions == SelectSeq(todo, LAMBDA task : task.op = "exitFunction")

InnermostFunction ==
    IF OpenFunctions = <<>> THEN FunctionNone ELSE OpenFunctions[1].functionType

\* C6: while the resolver runs, currentFunction is the kind of the innermost
\* function or method whose body is being resolved and FunctionNone outside
\* any, so it is back at the enclosing kind after each body; and
\* VisitReturnStmt panics exactly when no body is being resolved.
C6_ReturnOutsideFunction ==
    /\ [](pc = "resolving" => currentFunction = InnermostFunction)
    /\ [][ResolvingStmt("ReturnStmt") =>
            ((pc' = "static_error") <=> (OpenFunctions = <<>>))]_vars

\* A return after a function declaration, at top level, has been rejected.
C6_Witness ==
    /\ src[2] = "returnAfterFun"
    /\ pc = "static_error"
    /\ history.error = "Cannot return from top-level code."
    /\ Len(todo) = 1

\* C7: VisitReturnStmt panics for a return with a value met while
\* currentFunction is FunctionInitializer.
C7_InitializerReturnsNoValue ==
    [][(/\ ResolvingStmt("ReturnStmt")
        /\ todo[1].stmt.Value.e # "nil"
        /\ currentFunction = FunctionInitializer) => pc' = "static_error"]_vars

\* The VisitClassStmt activations in progress, innermost first.
OpenClasses == SelectSeq(todo, LAMBDA task : task.op \in {"classBody", "exitClass"})

InnermostClass ==
    IF OpenClasses = <<>> THEN ClassNone
    ELSE IF OpenClasses[1].stmt.Superclass.e # "nil" THEN ClassSubclass
    ELSE ClassClass

\* C8: while the resolver runs, currentClass is the kind of the innermost
\* class declaration being resolved and ClassNone outside any, so it is back
\* at the enclosing kind after each declaration; VisitThisExpr panics exactly
\* when no class is being resolved, VisitSuperExpr exactly when none is or the
\* innermost one has no superclass.
C8_ThisAndSuperOutsideClass ==
    /\ [](pc = "resolving" => currentClass = InnermostClass)
    /\ [][/\ ResolvingExpr("ThisExpr") =>
                ((pc' = "static_error") <=> (OpenClasses = <<>>))
          /\ ResolvingExpr("SuperExpr") =>
                ((pc' = "static_error") <=>
                    (OpenClasses = <<>> \/ OpenClasses[1].stmt.Superclass.e = "nil"))]_vars

\* super has been rejected in a class without superclass that is declared
\* inside a method of a subclass.
C8_Witness ==
    /\ src = <<(<<"submethod", "method">>), "super">>
    /\ pc = "static_error"
    /\ Len(OpenClasses) = 2
    /\ currentClass = ClassClass

\* C9: once the resolver has panicked nothing has run: no output, no
\* activation, no definition in the globals, no class, no instance; and
\* whatever has run, ran after the resolver's work was done.
C9_StaticErrorRunsNothing ==
    /\ pc = "static_error" =>
          /\ output = <<>>
          /\ stack = <<>>
          /\ ctl.k = "idle"
          /\ Len(envs) = 1
          /\ DOMAIN envs[globals].values = {}
          /\ classes = <<>>
          /\ instances = <<>>
    /\ (output # <<>> \/ stack # <<>>) => todo = <<>>

\* The resolver has panicked at the last of three statements, the first two
\* of which print.
C9_Witness ==
    /\ src[2] = "thisAfterClass"
    /\ pc = "static_error"
    /\ Len(todo) = 1
    /\ todo[1].expr.id = 8303

Failing == pc = "interpreting" /\ ctl.k = "panic" /\ ctl.sig = "error"

\* C10: a runtime error leaves one activation per step, printing and
\* changing nothing, recovered by no loop and no call, until it leaves
\* InterpretStatements and ends the run; after the run has ended so, nothing
\* is in progress.  A generated program whose innermost statement fails ends
\* so, having printed nothing after its first line.
C10_RuntimeErrorAborts ==
    /\ [][Failing =>
            /\ output' = output
            /\ heapVars' = heapVars
            /\ IF Len(stack) = 1
               THEN pc' = "runtime_error" /\ stack' = <<>>
               ELSE pc' = pc /\ stack' = Pop /\ ctl' = ctl]_vars
    /\ [](pc = "runtime_error" => (stack = <<>> /\ ctl.k = "idle"))
    /\ []((Finished /\ src[2] = "error") =>
            (pc = "runtime_error" /\ output = <<"start">>))

\* A division by zero inside a function called in a loop has ended the run.
C10_Witness ==
    /\ src = <<(<<"while", "fun">>), "error">>
    /\ pc = "runtime_error"
    /\ history.error = "Division by zero."
    /\ Len(envs) = 3

\* A step of VisitVarStmt that defines the name, and the name.
Declaring ==
    \/ Executing("VarStmt") /\ ctl.stmt.Initializer.e = "nil"
    \/ Resuming("VisitVarStmt")

DeclaredName == IF ctl.k = "exec" THEN ctl.stmt.Name ELSE Top.name

\* C11: a var declaration writes the name in the current environment and
\* nothing else: no other environment changes, no other name of the current
\* one, no environment is added and the pointer stays.  So in
\*   var a = 1; { var a = 2; var b = 3; print a; } print a; print b;
\* the block prints 2, the global a is still 1 after it, and b is undefined.
C11_VarBindsInBlockOnly ==
    /\ [][Declaring =>
            /\ environment' = environment
            /\ Len(envs') = Len(envs)
            /\ \A e \in 1..Len(envs) : e # environment => envs'[e] = envs[e]
            /\ DOMAIN envs'[environment].values =
                   DOMAIN envs[environment].values \cup {DeclaredName}
            /\ \A n \in DOMAIN envs[environment].values \ {DeclaredName} :
                   envs'[environment].values[n] = envs[environment].values[n]]_vars
    /\ []((Finished /\ src[2] = "shadow") =>
            /\ pc = "runtime_error"
            /\ history.error = "Undefined variable 'b'."
            /\ output = <<"2", "1">>
            /\ envs[globals].values["a"].v = 1
            /\ DOMAIN envs[globals].values = {"a"})

\* The block has declared its own a and b next to the global a.
C11_Witness ==
    /\ src[2] = "shadow"
    /\ pc = "interpreting"
    /\ environment = 2
    /\ DOMAIN envs[2].values = {"a", "b"}
    /\ envs[2].values["a"].v = 2
    /\ envs[globals].values["a"].v = 1

\* C12: an assignment to a name that no environment on the chain from the
\* current one holds panics and leaves every environment as it was.
C12_AssignUnboundFails ==
    [][(Resuming("VisitAssignExpr") /\ Lookup(envs, environment, Top.expr.Name) = 0) =>
          (ctl'.k = "panic" /\ envs' = envs)]_vars

\* The call expression has its callee and arguments and is about to check
\* them.
Checking == Resuming("VisitCallExpr") /\ Top.phase = "checks"

\* The number of arguments the callee declares: the parameters of a function,
\* those of the nearest init on the class chain, 0 for a class without one.
Declared(callee) ==
    IF callee.t = "fun" THEN Len(callee.declaration.Params)
    ELSE LET initializer == FindMethod(classes, callee.id, "init")
         IN IF initializer.t = "nil" THEN 0 ELSE Len(initializer.declaration.Params)

Callable(callee) == callee.t \in {"fun", "class"}

ArityFailure(kind) ==
    CASE kind = "arityMany" -> "Expected 1 arguments but got 2."
      [] kind = "arityString" -> "Can only call functions and classes, got string."
      [] kind = "arityNoInit" -> "Expected 0 arguments but got 1."
      [] OTHER -> "Expected 1 arguments but got 0."

\* C13: a call whose callee is no function or class, or whose argument count
\* differs from the declared one, panics with a runtime error in the step that
\* checks it: no environment, instance, activation or output is added.  Any
\* other call does not fail there.  The programs that make one bad call end
\* with that error having printed nothing.
C13_ArityCheckedBeforeCall ==
    /\ [][Checking =>
            IF Callable(Top.callee) /\ Len(Top.arguments) = Declared(Top.callee)
            THEN ctl'.k # "panic"
            ELSE /\ ctl'.k = "panic" /\ ctl'.sig = "error"
                 /\ envs' = envs /\ instances' = instances
                 /\ environment' = environment
                 /\ stack' = stack /\ output' = output]_vars
    /\ []((Finished /\ src[2] \in ArityKinds \ {"arityOk"}) =>
            /\ pc = "runtime_error"
            /\ output = <<>>
            /\ instances = <<>>
            /\ history.error = ArityFailure(src[2]))
    /\ []((Finished /\ src[2] = "arityOk") =>
            (pc = "done" /\ output = <<"1", "2", "3">>))

\* A class whose inherited init takes one argument is called with none.
C13_Witness ==
    /\ src[2] = "arityInherited"
    /\ Checking
    /\ Top.callee.t = "class"
    /\ classes[Top.callee.id].name = "L"
    /\ Len(Top.arguments) = 0
    /\ Declared(Top.callee) = 1

\* The environment that holds this for the code that is running, and the
\* classes whose methods were declared in the environment around it.
ThisEnvironment == Lookup(envs, environment, "this")

DeclaringClasses ==
    {c \in 1..Len(classes) :
        \E n \in DOMAIN classes[c].methods :
            classes[c].methods[n].closure = envs[ThisEnvironment].parent}

Receiver == envs[ThisEnvironment].values["this"]

\* C14: super.m in a method looks m up from the superclass of the class that
\* declares the method and binds what it finds to the current this.  In
\*   class A { m() { print "A.m"; print this.tag; } }
\*   class B < A { m() { print "B.m"; } test() { super.m(); } }
\*   class C < B { m() { print "C.m"; } }
\*   var c = C(); c.tag = "c"; c.test();
\* the inherited test runs A's m with this the instance of C.
C14_SuperStartsAboveDeclaringClass ==
    /\ [][Evaluating("SuperExpr") =>
            /\ ThisEnvironment # 0
            /\ \E c \in DeclaringClasses : classes[c].superclass # 0
            /\ \A c \in DeclaringClasses :
                  LET method == FindMethod(classes, classes[c].superclass, ctl.expr.Method)
                  IN IF method.t = "nil"
                     THEN ctl'.k = "panic" /\ ctl'.sig = "error"
                     ELSE /\ ctl'.k = "ret"
                          /\ ctl'.val.t = "fun"
                          /\ ctl'.val.declaration.Name = method.declaration.Name
                          /\ envs'[ctl'.val.closure].parent = method.closure
                          /\ envs'[ctl'.val.closure].values["this"] = Receiver]_vars
    /\ []((Finished /\ src[2] = "superChain") =>
            (pc = "done" /\ output = <<"A.m", "c">>))

\* super.m is evaluated in B's test while this is an instance of C.
C14_Witness ==
    /\ src[2] = "superChain"
    /\ Evaluating("SuperExpr")
    /\ Receiver.t = "inst"
    /\ classes[instances[Receiver.id].class].name = "C"
    /\ \E c \in DeclaringClasses : classes[c].name = "B"

\* The class and its superclasses, nearest first.
RECURSIVE ClassChain(_)
ClassChain(c) == IF c = 0 THEN <<>> ELSE <<c>> \o ClassChain(classes[c].superclass)

\* The positions on the chain of the classes that declare the method.
Holders(c, name) ==
    {i \in 1..Len(ClassChain(c)) : name \in DOMAIN classes[ClassChain(c)[i]].methods}

Nearest(S) == CHOOSE i \in S : \A j \in S : i <= j

\* C15: reading a property of an instance yields its field of that name if it
\* has one, otherwise the method of that name declared nearest on the class
\* chain, bound to the instance, otherwise a runtime error.  Writing a field
\* changes that field of that instance and nothing else: no other field, no
\* other instance, no class.
C15_FieldThenNearestMethod ==
    /\ [][(Resuming("VisitGetExpr") /\ ctl.val.t = "inst") =>
            LET instance == instances[ctl.val.id]
                name == Top.expr.Name
                holders == Holders(instance.class, name)
            IN IF name \in DOMAIN instance.fields
               THEN /\ ctl'.k = "ret"
                    /\ SameValue(ctl'.val, instance.fields[name])
                    /\ envs' = envs
               ELSE IF holders # {}
               THEN LET owner == ClassChain(instance.class)[Nearest(holders)]
                        method == classes[owner].methods[name]
                    IN /\ ctl'.k = "ret"
                       /\ ctl'.val.t = "fun"
                       /\ ctl'.val.declaration.Name = name
                       /\ ctl'.val.isInitializer = method.isInitializer
                       /\ envs'[ctl'.val.closure].parent = method.closure
                       /\ envs'[ctl'.val.closure].values["this"] = ctl.val
               ELSE /\ ctl'.k = "panic" /\ ctl'.sig = "error"
                    /\ ctl'.message = "Undefined property '" \o name \o "'."]_vars
    /\ [][(Resuming("VisitSetExpr") /\ Top.phase = "value") =>
            LET id == Top.object.id
                name == Top.expr.Name
            IN /\ classes' = classes
               /\ Len(instances') = Len(instances)
               /\ \A j \in 1..Len(instances) : j # id => instances'[j] = instances[j]
               /\ instances'[id].class = instances[id].class
               /\ DOMAIN instances'[id].fields = DOMAIN instances[id].fields \cup {name}
               /\ SameValue(instances'[id].fields[name], ctl.val)
               /\ \A n \in DOMAIN instances[id].fields \ {name} :
                      instances'[id].fields[n] = instances[id].fields[n]]_vars
    /\ []((Finished /\ src[2] = "properties") =>
            /\ pc = "runtime_error"
            /\ history.error = "Undefined property 'missing'."
            /\ output = <<"dog", "name", "field", "dog">>
            /\ DOMAIN instances[1].fields = {"speak"}
            /\ DOMAIN instances[2].fields = {})

\* d.speak is read while Dog overrides Animal's speak and d has no field yet.
C15_Witness ==
    /\ src[2] = "properties"
    /\ Resuming("VisitGetExpr")
    /\ ctl.val.t = "inst"
    /\ Top.expr.Name = "speak"
    /\ instances[ctl.val.id].fields = EmptyMap
    /\ Holders(instances[ctl.val.id].class, "speak") = {1, 2}

\* C16: when the superclass expression of a class declaration yields
\* anything but a class, the declaration panics with a runtime error and has
\* done nothing: no environment holds a new name, the pointer stays, no class
\* is added.  The programs that inherit from a string and from an instance
\* end with that error and the class name bound nowhere.
C16_SuperclassMustBeClass ==
    /\ [][(Resuming("VisitClassStmt") /\ ctl.val.t # "class") =>
            /\ ctl'.k = "panic" /\ ctl'.sig = "error"
            /\ ctl'.message = "Superclass must be a class."
            /\ envs' = envs
            /\ environment' = environment
            /\ classes' = classes]_vars
    /\ []((Finished /\ src[2] \in {"superclassString", "superclassInstance"}) =>
            /\ pc = "runtime_error"
            /\ history.error = "Superclass must be a class."
            /\ environment = globals
            /\ \A e \in 1..Len(envs) : "Subclass" \notin DOMAIN envs[e].values
            /\ \A c \in 1..Len(classes) : classes[c].name # "Subclass")

\* Inside a block, the superclass expression has yielded an instance.
C16_Witness ==
    /\ src[2] = "superclassInstance"
    /\ Resuming("VisitClassStmt")
    /\ ctl.val.t = "inst"
    /\ environment # globals
    /\ Top.stmt.Name = "Subclass"

\* C17: a function bound twice to the same instance behaves as the function
\* bound once: in the program whose method reads super and in the one whose
\* method reads a captured local and this, the output is the same whether or
\* not a bound method is bound again before it is called.
C17_BindTwiceReadsTheSame ==
    /\ (Finished /\ src[2] = "superChain") => (pc = "done" /\ output = <<"A.m", "c">>)
    /\ (Finished /\ src[2] = "captured") => (pc = "done" /\ output = <<"captured", "k">>)

Scanned == pc = "scanned"

RECURSIVE Significant(_, _, _, _)
Significant(source, i, within, kept) ==
    LET char == source[i]
        next == IF i < Len(source) THEN source[i + 1] ELSE ""
    IN IF i > Len(source) THEN [kept |-> kept, within |-> within]
       ELSE IF within = "string"
       THEN Significant(source, i + 1, IF char = "\"" THEN "code" ELSE "string",
                        Append(kept, char))
       ELSE IF within = "line"
       THEN Significant(source, i + 1, IF char = "\n" THEN "code" ELSE "line", kept)
       ELSE IF within = "block"
       THEN IF char = "*" /\ next = "/" THEN Significant(source, i + 2, "code", kept)
            ELSE Significant(source, i + 1, "block", kept)
       ELSE IF char = "/" /\ next = "/" THEN Significant(source, i + 2, "line", kept)
       ELSE IF char = "/" /\ next = "*" THEN Significant(source, i + 2, "block", kept)
       ELSE IF char = "\"" THEN Significant(source, i + 1, "string", Append(kept, char))
       ELSE IF char \in {" ", "\r", "\t", "\n"} THEN Significant(source, i + 1, "code", kept)
       ELSE Significant(source, i + 1, "code", Append(kept, char))

Stripped == Text(Significant(scanner.source, 1, "code", <<>>).kept)

\* The lexemes of the tokens but the last, one after the other.
RECURSIVE Lexemes(_, _)
Lexemes(tokens, i) ==
    IF i >= Len(tokens) THEN "" ELSE tokens[i].Lexeme \o Lexemes(tokens, i + 1)

Reported(message) ==
    \E i \in 1..Len(scanner.stdErr), line \in 0..Len(scanner.source) :
        scanner.stdErr[i] = "[line " \o ToString(line) \o "] Error: " \o message \o "\n"

C20_UnterminatedReportedExactly ==
    Scanned => (Reported("Unterminated block comment.") <=>
                    Significant(scanner.source, 1, "code", <<>>).within = "block")

\* C21: ParseStatements returns no function declaration with more than 255
\* parameters.
C21_NoMoreThan255Parameters ==
    pc = "parsed" =>
        \A i \in 1..Len(program) :
            program[i].s = "FunStmt" => Len(program[i].Params) <= 255

\* C22: a break that is in no loop of its own function body ends no loop: while
\* its BreakException unwinds a LoxFunction.Call activation that has no
\* VisitWhileStmt activation above it, there is no VisitWhileStmt activation of
\* a caller below it to recover it.
C22_BreakEndsNoLoopOfCaller ==
    Breaking =>
        \A c \in 1..Len(stack) :
            (/\ stack[c].f = "Call"
             /\ \A above \in (c + 1)..Len(stack) : stack[above].f # "VisitWhileStmt")
            => \A below \in 1..(c - 1) : stack[below].f # "VisitWhileStmt"

\* C23: a Variable or Assign that the side table does not hold is read from, and
\* written to, globals only: the environment that lookupVariable or
\* VisitAssignExpr finds for it is globals, or none.
C23_UnresolvedNamesAreGlobal ==
    /\ (Evaluating("Variable") /\ ctl.expr.id \notin DOMAIN locals)
       => lookupVariable(envs, locals, environment, ctl.expr.Name, ctl.expr.id)
            \in {0, globals}
    /\ (Resuming("VisitAssignExpr") /\ Top.expr.id \notin DOMAIN locals)
       => lookupVariable(envs, locals, environment, Top.expr.Name, Top.expr.id)
            \in {0, globals}

\* The resolver is at a Variable in the initializer of the var statement that
\* declares its name: the define of that statement is still to come, and only
\* the rest of the initializer is before it.
OwnInitializer ==
    /\ ResolvingExpr("Variable")
    /\ \E k \in 2..Len(todo) :
          /\ todo[k].op = "define"
          /\ todo[k].name = todo[1].expr.Name
          /\ \A j \in 2..(k - 1) : todo[j].op \in {"expr", "resolveLocal"}

ResolvingDeclaration ==
    /\ pc = "resolving"
    /\ todo # <<>>
    /\ todo[1].op = "stmt"
    /\ todo[1].stmt.s \in {"VarStmt", "FunStmt", "ClassStmt"}

\* The statement declares a name that the innermost scope holds.
Redeclaring ==
    /\ ResolvingDeclaration
    /\ Len(scopes) > 0
    /\ todo[1].stmt.Name \in DOMAIN scopes[Len(scopes)]

\* The function or method that the resolver is at, NoStmt when it is at none.
ResolvedFunction ==
    IF pc = "resolving" /\ todo # <<>> /\ todo[1].op = "method" THEN todo[1].method
    ELSE IF ResolvingDeclaration /\ ~Redeclaring /\ todo[1].stmt.s = "FunStmt"
    THEN todo[1].stmt
    ELSE NoStmt

\* The parameters that repeat an earlier parameter of the list.
Repeated(params) == {j \in 1..Len(params) : \E i \in 1..(j - 1) : params[i] = params[j]}

\* C25: declaring a name that the innermost scope already holds raises a static
\* error and leaves the entry of that scope as it is, for a var, a fun and a
\* class statement and for a parameter; a name that the innermost scope does
\* not hold, and any name at global scope, is declared without an error.
C25_RedeclarationRejected ==
    [][/\ Redeclaring => pc' = "static_error" /\ scopes' = scopes
       /\ (ResolvingDeclaration /\ ~Redeclaring /\ todo[1].stmt.s # "FunStmt")
          => pc' = "resolving"
       /\ ResolvedFunction.s # "nil" =>
             LET params == ResolvedFunction.Params
             IN IF Repeated(params) = {} THEN pc' = "resolving"
                ELSE /\ pc' = "static_error"
                     /\ LET first == CHOOSE j \in Repeated(params) :
                                        \A k \in Repeated(params) : j <= k
                        IN /\ params[first] \in DOMAIN scopes'[Len(scopes')]
                           /\ scopes'[Len(scopes')][params[first]]
                           /\ DOMAIN scopes'[Len(scopes')]
                                = {params[i] : i \in 1..(first - 1)}]_vars

C25_Witness ==
    /\ pc = "static_error"
    /\ src = <<<<>>, "redeclareParamVar">>
    /\ todo[1].stmt.s = "VarStmt"
    /\ Len(scopes) = 1
    /\ scopes[1] = MapPut(EmptyMap, "a", TRUE)

\* What a run prints when every operand is evaluated in its turn, and the
\* error it ends with.
OrderOutput(kind) ==
    CASE kind = "orderBinary" -> <<"1", "2", "3">>
      [] kind = "orderOperands" -> <<"a", "2">>
      [] kind = "orderArguments" -> <<"1", "2", "3", "2">>
      [] kind = "orderArity" -> <<"1", "2", "3">>
      [] kind = "orderCallable" -> <<"1", "2", "3">>
      [] kind = "orderAssign" -> <<"0", "9">>

OrderError(kind) ==
    CASE kind = "orderOperands" -> "Operands for - must be numbers."
      [] kind = "orderArity" -> "Expected 1 arguments but got 3."
      [] kind = "orderCallable" -> "Can only call functions and classes, got float64."
      [] OTHER -> ""

Begins(s, t) == Len(s) <= Len(t) /\ \A i \in 1..Len(s) : s[i] = t[i]

\* C26: operands are evaluated from left to right: the left operand of a binary
\* expression wholly before the right one and both before the check of their
\* types; the callee, then the arguments from left to right, then the checks
\* that the callee can be called with that many arguments; the right-hand side
\* of an assignment before the binding is written.  What the operands print
\* comes in that order, and the error comes after all of it.
C26_LeftToRight ==
    \A kind \in OrderKinds :
        src = <<<<>>, kind>> =>
            /\ Begins(output, OrderOutput(kind))
            /\ history.error # "" => output = OrderOutput(kind)
            /\ pc \in {"done", "runtime_error"} =>
                  /\ output = OrderOutput(kind)
                  /\ history.error = OrderError(kind)

C26_Witness ==
    /\ pc = "runtime_error"
    /\ src = <<<<>>, "orderCallable">>
    /\ output = <<"1", "2", "3">>
    /\ history.error = "Can only call functions and classes, got float64."

\* The statement that the parser returns for the for statement of the kind:
\* Block[initializer, While(condition, Block[body, ExprStmt(increment)])],
\* without the blocks of the clauses that are absent.
ForShape(kind) ==
    LET looped == IF kind \in WithIncrement
                  THEN [s |-> "BlockStmt",
                        Statements |-> <<ForBody(kind),
                                         [s |-> "ExpressionStmt",
                                          Expression |-> ForIncrement]>>]
                  ELSE ForBody(kind)
        while == [s |-> "WhileStmt",
                  Condition |-> IF kind \in WithCondition THEN ForCondition(kind)
                                ELSE [e |-> "Literal", Value |-> [t |-> "bool", v |-> TRUE]],
                  Body |-> looped]
    IN IF kind \in WithInitializer
       THEN [s |-> "BlockStmt", Statements |-> <<ForInitializer, while>>]
       ELSE while

\* What the loop prints: the initializer once, then the condition, the body
\* and the increment turn by turn; the break of the second turn skips the
\* increment, the counted loop ends by its condition.
ForOutput(kind) ==
    LET initializer == IF kind \in WithInitializer THEN <<"init">> ELSE <<>>
        condition == IF kind \in WithCondition THEN <<"cond">> ELSE <<>>
        increment == IF kind \in WithIncrement THEN <<"incr">> ELSE <<>>
    IN IF kind = "forCounted"
       THEN <<"init", "cond", "body", "incr", "cond", "body", "incr", "cond", "end">>
       ELSE initializer \o condition \o <<"body", "after">> \o increment
                \o condition \o <<"body", "end">>

\* C27: for every combination of clauses the parser returns the initializer
\* and a while loop in a block, the loop's body being a block of the body and
\* the increment; an absent condition is the literal true, an absent increment
\* leaves the body as it is, an absent initializer leaves the loop as it is.
\* Run, the initializer is evaluated once, then the condition, the body and
\* the increment in turn, and a break in the body skips the increment.
C27_ForIsWhile ==
    \A kind \in ForKinds :
        src = <<<<>>, kind>> =>
            /\ Len(program) = 6
            /\ program[5].s = ForShape(kind).s
            /\ program[5] = ForShape(kind)
            /\ Begins(output, ForOutput(kind))
            /\ history.error = ""
            /\ pc \in {"done", "runtime_error", "static_error"} =>
                  pc = "done" /\ output = ForOutput(kind)

C27_Witness ==
    /\ pc = "done"
    /\ src = <<<<>>, "forICN">>
    /\ output = <<"init", "cond", "body", "after", "incr", "cond", "body", "end">>

\* The environment where at most n parent links from environment i lead.
RECURSIVE Outermost(_, _)
Outermost(i, n) ==
    IF n = 0 \/ envs[i].parent \notin 1..Len(envs) THEN i
    ELSE Outermost(envs[i].parent, n - 1)

\* C28: the parent links of the environments (of blocks, of calls, of super
\* and of the binding of this) have no cycle: from every environment they lead
\* to globals, the only one without a parent; and no step changes the parent
\* of an environment that exists.
C28_ParentsLeadToGlobals ==
    /\ [](\A i \in 1..Len(envs) :
             /\ Outermost(i, Len(envs)) = globals
             /\ envs[i].parent = 0 <=> i = globals)
    /\ [][\A i \in 1..Len(envs) :
             /\ i <= Len(envs')
             /\ envs'[i].parent = envs[i].parent]_vars

C28_Witness ==
    /\ pc = "interpreting"
    /\ \E block, call, super, this \in 1..Len(envs) :
          /\ envs[block].parent = globals
          /\ envs[super].parent = block
          /\ "super" \in DOMAIN envs[super].values
          /\ envs[this].parent = super
          /\ "this" \in DOMAIN envs[this].values
          /\ envs[call].parent = this
          /\ environment = call

\* The environment at the distance that the side table holds for the node
\* binds the name.
BoundAt(id, name) ==
    LET current == ancestor(envs, environment, locals[id])
    IN current \in 1..Len(envs) /\ name \in DOMAIN envs[current].values

\* C29: whenever the interpreter evaluates a Variable, an Assign, a This or a
\* Super that the side table holds, the environment at the recorded distance
\* from the current one exists and binds the name at that moment, so that
\* getAt reads no absent key.
C29_ResolvedNamesAreBound ==
    /\ (Evaluating("Variable") /\ ctl.expr.id \in DOMAIN locals)
       => BoundAt(ctl.expr.id, ctl.expr.Name)
    /\ (Evaluating("ThisExpr") /\ ctl.expr.id \in DOMAIN locals)
       => BoundAt(ctl.expr.id, "this")
    /\ (Evaluating("SuperExpr") /\ ctl.expr.id \in DOMAIN locals)
       => BoundAt(ctl.expr.id, "super")
    /\ (Resuming("VisitAssignExpr") /\ Top.expr.id \in DOMAIN locals)
       => BoundAt(Top.expr.id, Top.expr.Name)

\* The scopes that a task of the resolver closes: one for an endScope, and for
\* the end of a class the scope of this and, with a superclass, of super.
Closes(task) ==
    CASE task.op = "endScope" -> 1
      [] task.op = "exitClass" -> IF task.stmt.Superclass.e # "nil" THEN 2 ELSE 1
      [] OTHER -> 0

\* The scopes that the work still to do closes.
RECURSIVE PendingEnds(_)
PendingEnds(tasks) ==
    IF tasks = <<>> THEN 0 ELSE Closes(tasks[1]) + PendingEnds(Rest(tasks))

\* Resolve has returned without a panic.
ResolveReturned ==
    \/ pc = "resolving" /\ todo = <<>>
    \/ pc \in {"interpreting", "done", "runtime_error"}

\* C30: every beginScope of the resolver is matched by an endScope: while it
\* walks, the open scopes are those that the work still to do closes, so no
\* endScope finds the stack empty; and when Resolve has returned normally the
\* stack is empty again and currentFunction and currentClass are what they
\* were before.
C30_ScopesAreMatched ==
    /\ pc = "resolving" => Len(scopes) = PendingEnds(todo)
    /\ (pc = "resolving" /\ todo # <<>>) => Closes(todo[1]) <= Len(scopes)
    /\ ResolveReturned =>
          /\ scopes = <<>>
          /\ currentFunction = FunctionNone
          /\ currentClass = ClassNone

C30_Witness ==
    /\ pc = "resolving"
    /\ todo = <<>>
    /\ src = <<<<"block", "submethod">>, "print">>
    /\ scopes = <<>>
    /\ locals # [n \in {} |-> 0]

====
